---- MODULE Spec2Model ----
(***************************************************************************)
(* A model of the reseeding layer of the rand library                      *)
(* (src/src/rngs/reseeding.rs): ReseedingRng = BlockRng<ReseedingCore>.    *)
(*                                                                         *)
(* Integers are scaled: i64/u64 are IntBits wide, a block holds BlockWords *)
(* words of WordBytes bytes.  The inner generator R is the free generator: *)
(* its state is (seed, number of blocks produced), and a word of output    *)
(* names the seed, the block and the position it came from, so that the    *)
(* provenance of every word delivered can be read off the output.          *)
(***************************************************************************)
EXTENDS Integers, Sequences, FiniteSets, TLC

\* ------------------------------------------------------------ bounds
\* width of i64 / u64 in the model
IntBits == 5
\* words per block of the inner generator (Results = [u32; BlockWords])
BlockWords == 2
\* distinct values the reseed source can yield (StepRng's u64, wrapping)
NSeeds == 2
\* blocks one inner generator state may produce before the model stops it
MaxCtr == 4

\* ------------------------------------------------------------ constants
\* size of the inner generator's Item (u32), in bytes
WordBytes == 4

RECURSIVE Pow2(_)
Pow2(n) == IF n = 0 THEN 1 ELSE 2 * Pow2(n - 1)

I64_MAX == Pow2(IntBits - 1) - 1
I64_MIN == 0 - Pow2(IntBits - 1)
U64_MAX == Pow2(IntBits) - 1

\* two's complement wrap of a signed result into IntBits bits
WrapI64(x) == ((x - I64_MIN) % Pow2(IntBits)) + I64_MIN

Min(a, b) == IF a <= b THEN a ELSE b

\* ------------------------------------------------------------ inner generator R
Seeds == 0 .. (NSeeds - 1)

\* R::from_seed: a generator that has produced no block yet
FromSeed(seed) == [seed |-> seed, ctr |-> 0]

\* no block generated yet (BlockRng::new leaves the buffer at its default)
NoBlock == [seed |-> 0 - 1, ctr |-> 0 - 1]

\* R::generate(results): the next block of the stream, the state advanced
InnerGenerate(inner) ==
    [inner |-> [inner EXCEPT !.ctr = @ + 1],
     block |-> [seed |-> inner.seed, ctr |-> inner.ctr]]

\* word i of a block
Word(block, i) == [seed |-> block.seed, ctr |-> block.ctr, k |-> i]

\* ------------------------------------------------------------ reseed source
\* What one request to the reseed source does: it yields a seed ("ok"), or it
\* fails having consumed part of its stream ("err_adv") or nothing ("err").
Outcomes == {"ok", "err_adv", "err"}

\* StepRng::next_u64: yields v, then v = v.wrapping_add(a)
StepNext(r) == [r EXCEPT !.v = (r.v + r.a) % NSeeds]

\* R::from_rng(&mut reseeder) -> Result<R, Error>
FromRng(reseeder, o) ==
    IF o = "ok"
    THEN [res |-> "Ok", inner |-> FromSeed(reseeder.v), reseeder |-> StepNext(reseeder)]
    ELSE [res |-> "Err", inner |-> FromSeed(reseeder.v),
          reseeder |-> IF o = "err_adv" THEN StepNext(reseeder) ELSE reseeder]

\* ------------------------------------------------------------ ReseedingCore
\* size_of_val(results.as_ref())
NumBytes == BlockWords * WordBytes

\* Departures from ReseedingCore::new, against which the statements about the
\* stored threshold are tried: a bare cast of the u64, and no special case
\* for 0.
NewThreshold_Cast(threshold) ==
    IF threshold = 0 THEN I64_MAX ELSE WrapI64(threshold)

NewThreshold_NoZero(threshold) ==
    IF threshold <= I64_MAX THEN threshold ELSE I64_MAX

\* the threshold computed by ReseedingCore::new
NewThreshold(threshold) ==
    IF threshold = 0 THEN I64_MAX
    ELSE IF threshold <= I64_MAX THEN threshold
    ELSE I64_MAX

\* ReseedingCore::new
CoreNew(rng, threshold, reseeder) ==
    [inner |-> rng,
     reseeder |-> reseeder,
     threshold |-> NewThreshold(threshold),
     bytes_until_reseed |-> NewThreshold(threshold)]

\* A departure from reseed: the budget is refilled before the source is
\* asked, whatever the source answers.
CoreReseed_BudgetFirst(core, o) ==
    LET r == FromRng(core.reseeder, o)
        c1 == [core EXCEPT !.bytes_until_reseed = core.threshold]
    IN  IF r.res = "Ok"
        THEN [res |-> "Ok",
              core |-> [c1 EXCEPT !.reseeder = r.reseeder, !.inner = r.inner]]
        ELSE [res |-> "Err",
              core |-> [c1 EXCEPT !.reseeder = r.reseeder]]

\* ReseedingCore::reseed
CoreReseed(core, o) ==
    LET r == FromRng(core.reseeder, o)
    IN  IF r.res = "Ok"
        THEN [res |-> "Ok",
              core |-> [core EXCEPT !.reseeder = r.reseeder,
                                    !.bytes_until_reseed = core.threshold,
                                    !.inner = r.inner]]
        ELSE [res |-> "Err",
              core |-> [core EXCEPT !.reseeder = r.reseeder]]

\* Departures from reseed_and_generate: one that gives up on a failed reseed
\* instead of generating, one that resets the budget only when the reseed
\* succeeded, and one that generates the block before it reseeds.
ReseedAndGenerate_Propagate(core, o) ==
    LET r  == CoreReseed(core, o)
        c1 == [r.core EXCEPT !.bytes_until_reseed = WrapI64(r.core.threshold - NumBytes)]
        g  == InnerGenerate(c1.inner)
    IN  IF r.res = "Err"
        THEN [core |-> r.core, block |-> NoBlock, reseed |-> r.res]
        ELSE [core |-> [c1 EXCEPT !.inner = g.inner], block |-> g.block, reseed |-> r.res]

ReseedAndGenerate_KeepBudget(core, o) ==
    LET r  == CoreReseed(core, o)
        c1 == IF r.res = "Ok"
              THEN [r.core EXCEPT !.bytes_until_reseed = WrapI64(r.core.threshold - NumBytes)]
              ELSE r.core
        g  == InnerGenerate(c1.inner)
    IN  [core |-> [c1 EXCEPT !.inner = g.inner], block |-> g.block, reseed |-> r.res]

ReseedAndGenerate_Late(core, o) ==
    LET g  == InnerGenerate(core.inner)
        r  == CoreReseed(core, o)
        c1 == [r.core EXCEPT !.bytes_until_reseed = WrapI64(r.core.threshold - NumBytes)]
    IN  [core |-> IF r.res = "Ok" THEN c1 ELSE [c1 EXCEPT !.inner = g.inner],
         block |-> g.block, reseed |-> r.res]

\* ReseedingCore::reseed_and_generate
ReseedAndGenerate(core, o) ==
    LET r  == CoreReseed(core, o)
        c1 == [r.core EXCEPT !.bytes_until_reseed = WrapI64(r.core.threshold - NumBytes)]
        g  == InnerGenerate(c1.inner)
    IN  [core |-> [c1 EXCEPT !.inner = g.inner], block |-> g.block, reseed |-> r.res]

\* A departure from generate: the budget must be overdrawn, not merely spent.
CoreGenerate_Strict(core, o) ==
    IF core.bytes_until_reseed < 0
    THEN ReseedAndGenerate(core, o)
    ELSE LET g == InnerGenerate(core.inner)
         IN  [core |-> [core EXCEPT !.bytes_until_reseed = WrapI64(@ - NumBytes),
                                    !.inner = g.inner],
              block |-> g.block, reseed |-> "None"]

\* ReseedingCore::generate (BlockRngCore)
CoreGenerate(core, o) ==
    IF core.bytes_until_reseed <= 0
    THEN ReseedAndGenerate(core, o)
    ELSE LET g == InnerGenerate(core.inner)
         IN  [core |-> [core EXCEPT !.bytes_until_reseed = WrapI64(@ - NumBytes),
                                    !.inner = g.inner],
              block |-> g.block,
              reseed |-> "None"]

\* Departures from Clone for ReseedingCore: a field-by-field copy, and a copy
\* that starts with a full budget.
CoreClone_KeepBudget(core) ==
    [inner |-> core.inner, reseeder |-> core.reseeder,
     threshold |-> core.threshold, bytes_until_reseed |-> core.bytes_until_reseed]

CoreClone_FullBudget(core) ==
    [inner |-> core.inner, reseeder |-> core.reseeder,
     threshold |-> core.threshold, bytes_until_reseed |-> core.threshold]

\* Clone for ReseedingCore
CoreClone(core) ==
    [inner |-> core.inner,
     reseeder |-> core.reseeder,
     threshold |-> core.threshold,
     bytes_until_reseed |-> 0]

\* ------------------------------------------------------------ BlockRng
\* The state of one call in progress: the generator, the words delivered so
\* far, the bytes written, and one event per request made to the core.
\* obs is the observer's record of the core (it decides nothing in the code).

\* the observer's record after one call of generate
ObsAfterGenerate(ob, reseed) ==
    [ob EXCEPT !.since    = IF reseed = "None" THEN @ + NumBytes ELSE NumBytes,
               !.first    = FALSE,
               !.prev     = reseed,
               !.reseeded = @ \/ (ob.cloned /\ reseed = "Ok"),
               !.failed   = @ \/ (ob.cloned /\ reseed = "Err")]

\* BlockRng::new: the buffer is empty (index == results.len())
BlockNew(core) == [core |-> core, results |-> NoBlock, index |-> BlockWords]

\* BlockRng::reset
BlockReset(br) == [br EXCEPT !.index = BlockWords]

\* BlockRng::generate_and_set: core.generate(&mut results); self.index = index
GenerateAndSet(st, index, env) ==
    LET o  == env[st.k + 1]
        g  == CoreGenerate(st.rng.core, o)
        ev == [pre |-> st.rng.core, ob |-> st.obs, o |-> o,
               reseed |-> g.reseed, block |-> g.block]
    IN  [st EXCEPT !.rng    = [core |-> g.core, results |-> g.block, index |-> index],
                   !.obs    = ObsAfterGenerate(st.obs, g.reseed),
                   !.events = Append(@, ev),
                   !.k      = @ + 1]

\* BlockRng::next_u32
BlockNextU32(st, env) ==
    LET s1 == IF st.rng.index >= BlockWords THEN GenerateAndSet(st, 0, env) ELSE st
    IN  [s1 EXCEPT !.rng.index = @ + 1,
                   !.out = Append(@, Word(s1.rng.results, s1.rng.index))]

\* BlockRng::next_u64
BlockNextU64(st, env) ==
    LET len   == BlockWords
        index == st.rng.index
    IN  IF index < len - 1
        THEN [st EXCEPT !.rng.index = @ + 2,
                        !.out = @ \o <<Word(st.rng.results, index),
                                       Word(st.rng.results, index + 1)>>]
        ELSE IF index >= len
        THEN LET s1 == GenerateAndSet(st, 2, env)
             IN  [s1 EXCEPT !.out = @ \o <<Word(s1.rng.results, 0),
                                            Word(s1.rng.results, 1)>>]
        ELSE LET x  == Word(st.rng.results, len - 1)
                 s1 == GenerateAndSet(st, 1, env)
                 y  == Word(s1.rng.results, 0)
             IN  [s1 EXCEPT !.out = @ \o <<x, y>>]

\* BlockRng::fill_bytes: the loop over fill_via_u32_chunks
RECURSIVE BlockFillBytes(_, _, _)
BlockFillBytes(st, remaining, env) ==
    IF remaining <= 0 THEN st
    ELSE LET s1       == IF st.rng.index >= BlockWords
                         THEN GenerateAndSet(st, 0, env) ELSE st
             avail    == BlockWords - s1.rng.index
             want     == (remaining + WordBytes - 1) \div WordBytes
             consumed == Min(avail, want)
             filled   == Min(consumed * WordBytes, remaining)
             s2       == [s1 EXCEPT
                            !.rng.index = @ + consumed,
                            !.filled = @ + filled,
                            !.out = @ \o [i \in 1 .. consumed |->
                                            Word(s1.rng.results, s1.rng.index + i - 1)]]
         IN  BlockFillBytes(s2, remaining - filled, env)

\* ------------------------------------------------------------ ReseedingRng
\* ReseedingRng::new
RngNew(rng, threshold, reseeder) == BlockNew(CoreNew(rng, threshold, reseeder))

\* A departure from ReseedingRng::reseed: the buffer is kept.
RngReseed_NoReset(br, o) ==
    LET r == CoreReseed(br.core, o)
    IN  [res |-> r.res, rng |-> [br EXCEPT !.core = r.core]]

\* ReseedingRng::reseed: self.0.reset(); self.0.core.reseed()
RngReseed(br, o) ==
    LET b1 == BlockReset(br)
        r  == CoreReseed(b1.core, o)
    IN  [res |-> r.res, rng |-> [b1 EXCEPT !.core = r.core]]

\* RngCore for ReseedingRng: next_u32, next_u64, fill_bytes, try_fill_bytes
RngNextU32(st, env) == [BlockNextU32(st, env) EXCEPT !.ret = "value"]

RngNextU64(st, env) == [BlockNextU64(st, env) EXCEPT !.ret = "value"]

RngFillBytes(st, n, env) == [BlockFillBytes(st, n, env) EXCEPT !.ret = "unit"]

RngTryFillBytes(st, n, env) == [BlockFillBytes(st, n, env) EXCEPT !.ret = "Ok"]

\* Clone for ReseedingRng: BlockRng::new(self.0.core.clone())
RngClone(br) == BlockNew(CoreClone(br.core))

\* ------------------------------------------------------------ ThreadRng
\* The thread-local generator of rand_trng.  ChaCha12Rng, the OS entropy
\* source, Rc and thread_local! are not part of the sources modelled here and
\* are taken by their contracts: ChaCha12Rng is a free generator (an output
\* names the seed and the position it comes from), the k-th call of the OS
\* entropy source either fails or yields the seed k, an Rc is freed when its
\* strong count reaches 0, and a thread-local key is initialised by the first
\* access, panics on access once destroyed, and is destroyed at thread exit.

\* RESEED_THRESHOLD (64 KiB in the source), scaled with the integers
RESEED_THRESHOLD == 8
\* handle values that exist at one time
MaxHandles == 2
\* calls of the OS entropy source
MaxOsCalls == 3
\* outputs taken from one seeding of ChaCha12Rng
MaxPos == 3
\* the same, where threads and handles come and go
SharedPos == 1
\* calls of the OS entropy source, where threads and handles come and go
SharedOsCalls == 2

Threads == {"t1", "t2"}
Addrs == 1 .. (Cardinality(Threads) + 1)
\* a ThreadRng value: the thread it lives on and the address its Rc holds
HandleVals == [thread : Threads, cell : Addrs]

OsOutcomes == {"ok", "err"}

\* ChaCha12Rng::try_from_os_rng(), the k-th call of the entropy source
TryFromOsRng(k, o) ==
    IF o = "ok"
    THEN [res |-> "Ok", rng |-> [seed |-> k, pos |-> 0]]
    ELSE [res |-> "Err", rng |-> [seed |-> 0, pos |-> 0]]

\* next_u32 / next_u64 / fill_bytes of ChaCha12Rng for n bytes
ChaChaNext(r, n) ==
    [rng |-> IF n > 0 THEN [r EXCEPT !.pos = @ + 1] ELSE r,
     out |-> [seed |-> r.seed, pos |-> r.pos, n |-> n]]

NoState == [rng |-> [seed |-> 0, pos |-> 0], bytes_until_reseed |-> 0]

\* A departure from InnerState::reseed: the budget is refilled only once the
\* entropy source has answered.
InnerReseed_BudgetLast(s, k, o) ==
    LET r == TryFromOsRng(k, o)
    IN  IF r.res = "Ok"
        THEN [res |-> "Ok",
              s |-> [s EXCEPT !.rng = r.rng,
                              !.bytes_until_reseed = RESEED_THRESHOLD]]
        ELSE [res |-> "Err", s |-> s]

\* A departure from InnerState::reseed: when the entropy source fails the
\* generator is replaced by an unseeded one.
InnerReseed_Weak(s, k, o) ==
    LET s1 == [s EXCEPT !.bytes_until_reseed = RESEED_THRESHOLD]
        r  == TryFromOsRng(k, o)
    IN  [res |-> r.res, s |-> [s1 EXCEPT !.rng = r.rng]]

\* InnerState::reseed
InnerReseed(s, k, o) ==
    LET s1 == [s EXCEPT !.bytes_until_reseed = RESEED_THRESHOLD]
        r  == TryFromOsRng(k, o)
    IN  IF r.res = "Ok"
        THEN [res |-> "Ok", s |-> [s1 EXCEPT !.rng = r.rng]]
        ELSE [res |-> "Err", s |-> s1]

\* A departure from InnerState::reseed_check: the request is charged without
\* looking at the budget.
ReseedCheck_Unchecked(s, n, k, o) ==
    [res |-> "None",
     s   |-> [s EXCEPT !.bytes_until_reseed = WrapI64(@ - n)]]

\* InnerState::reseed_check
ReseedCheck(s, n, k, o) ==
    LET r == IF s.bytes_until_reseed < 0
             THEN InnerReseed(s, k, o)
             ELSE [res |-> "None", s |-> s]
    IN  [res |-> r.res,
         s   |-> [r.s EXCEPT !.bytes_until_reseed = WrapI64(@ - n)]]

\* the body of next_u32, next_u64 and fill_bytes of ThreadRng on the state s
\* their reference points to
TrngGenerate(s, n, k, o) ==
    LET c == ReseedCheck(s, n, k, o)
        g == ChaChaNext(c.s.rng, n)
    IN  [s |-> [c.s EXCEPT !.rng = g.rng], out |-> g.out, reseed |-> c.res,
         ret |-> "value"]

TrngNextU32(s, k, o) == TrngGenerate(s, 4, k, o)
TrngNextU64(s, k, o) == TrngGenerate(s, 8, k, o)
TrngFillBytes(s, n, k, o) == [TrngGenerate(s, n, k, o) EXCEPT !.ret = "unit"]

\* A departure from ThreadRng::reseed: nothing is done while budget is left.
TrngReseed_IfSpent(s, k, o) ==
    LET r == IF s.bytes_until_reseed <= 0
             THEN InnerReseed(s, k, o)
             ELSE [res |-> "None", s |-> s]
    IN  [s |-> r.s, out |-> [seed |-> 0, pos |-> 0, n |-> 0], reseed |-> r.res,
         ret |-> IF r.res = "Err" THEN "Err" ELSE "Ok"]

\* ThreadRng::reseed
TrngReseed(s, k, o) ==
    LET r == InnerReseed(s, k, o)
    IN  [s |-> r.s, out |-> [seed |-> 0, pos |-> 0, n |-> 0], reseed |-> r.res,
         ret |-> r.res]

\* A departure from Debug for ThreadRng: the fields are printed, as a derived
\* implementation would.
DebugFmt_Derived(handle, mem) ==
    "ThreadRng { rng: " \o ToString(mem[handle.cell].s) \o " }"

\* <ThreadRng as Debug>::fmt of a handle, given the memory it can read
DebugFmt(handle, mem) == "ThreadRng { .. }"

\* Rc<UnsafeCell<InnerState>>: the heap maps an address to a cell
Unalloc == [st |-> "unalloc", strong |-> 0, owner |-> "none", s |-> NoState]
RcNew(mem, a, owner, s) ==
    [mem EXCEPT ![a] = [st |-> "live", strong |-> 1, owner |-> owner, s |-> s]]
RcClone(mem, a) == [mem EXCEPT ![a].strong = @ + 1]
RcDrop(mem, a) ==
    IF mem[a].strong = 1
    THEN [mem EXCEPT ![a] = [st |-> "freed", strong |-> 0,
                              owner |-> mem[a].owner, s |-> NoState]]
    ELSE [mem EXCEPT ![a].strong = @ - 1]

FreeAddr(mem) ==
    CHOOSE a \in Addrs :
        mem[a].st = "unalloc" /\ \A b \in Addrs : mem[b].st = "unalloc" => a <= b

\* A departure from the initialiser of THREAD_RNG_KEY: when the entropy
\* source fails the state is created around an unseeded generator.
KeyWithClone_Fallback(slot, mem, owner, k, o) ==
    IF slot.st = "destroyed"
    THEN [res |-> 0, slot |-> slot, mem |-> mem, asked |-> FALSE]
    ELSE IF slot.st = "alive"
    THEN [res |-> slot.cell, slot |-> slot, mem |-> RcClone(mem, slot.cell),
          asked |-> FALSE]
    ELSE LET r == TryFromOsRng(k, o)
             a == FreeAddr(mem)
             s == [rng |-> r.rng, bytes_until_reseed |-> RESEED_THRESHOLD]
         IN  [res |-> a, slot |-> [st |-> "alive", cell |-> a],
              mem |-> RcClone(RcNew(mem, a, owner, s), a), asked |-> TRUE]

\* THREAD_RNG_KEY.with(|t| t.clone()) on a thread whose slot is slot: the
\* slot is initialised on first access; res is the address of the cell whose
\* Rc was cloned, or 0 for a panic
KeyWithClone(slot, mem, owner, k, o) ==
    IF slot.st = "destroyed"
    THEN [res |-> 0, slot |-> slot, mem |-> mem, asked |-> FALSE]
    ELSE IF slot.st = "alive"
    THEN [res |-> slot.cell, slot |-> slot, mem |-> RcClone(mem, slot.cell),
          asked |-> FALSE]
    ELSE LET r == TryFromOsRng(k, o)
             a == FreeAddr(mem)
             s == [rng |-> r.rng, bytes_until_reseed |-> RESEED_THRESHOLD]
         IN  IF r.res = "Ok"
             THEN [res |-> a, slot |-> [st |-> "alive", cell |-> a],
                   mem |-> RcClone(RcNew(mem, a, owner, s), a), asked |-> TRUE]
             ELSE [res |-> 0, slot |-> slot, mem |-> mem, asked |-> TRUE]

\* A departure from the slot holding an Rc: the slot owns the state and its
\* destructor frees it.
KeyDestroy_Free(slot, mem) ==
    [slot |-> [st |-> "destroyed", cell |-> 0],
     mem  |-> IF slot.st = "alive"
              THEN [mem EXCEPT ![slot.cell] =
                        [st |-> "freed", strong |-> 0,
                         owner |-> mem[slot.cell].owner, s |-> NoState]]
              ELSE mem]

\* the destructor of the thread-local slot, run at thread exit
KeyDestroy(slot, mem) ==
    [slot |-> [st |-> "destroyed", cell |-> 0],
     mem  |-> IF slot.st = "alive" THEN RcDrop(mem, slot.cell) ELSE mem]

\* A departure from the derived Clone: the state is copied into an Rc of its
\* own.
HandleClone_Deep(handle, mem) ==
    LET a == FreeAddr(mem)
    IN  [handle |-> [handle EXCEPT !.cell = a],
         mem    |-> RcNew(mem, a, handle.thread, mem[handle.cell].s)]

\* #[derive(Clone)] for ThreadRng and its drop glue
HandleClone(handle, mem) ==
    [handle |-> handle, mem |-> RcClone(mem, handle.cell)]
HandleDrop(handle, mem) == RcDrop(mem, handle.cell)

\* ------------------------------------------------------------ WeightedTreeIndex
\* The weighted sampling tree of rand_distr.  The weight type W is a bounded
\* integer, signed or unsigned, of WBits bits.  The Weight trait and the
\* integer operators are not part of the sources modelled here and are taken
\* by their contracts: checked_add_assign adds unless the sum leaves the
\* type, `-=` leaves the type by panicking (debug build) or by wrapping
\* (release build).  The floating point types the tree is also used with
\* (f64 in its tests) are a binary format of MantBits significant bits, its
\* values counted in units of the smallest one: there every sum and
\* difference succeeds and is rounded to the nearest value of the format,
\* ties to the even significand.  subtotals is a sequence; index i of the
\* source is position i + 1.

\* bits of the weight type
WBits == 3
\* longest tree
MaxLen == 4

\* significant bits of the floating point weight type
MantBits == 2
\* largest magnitude of a floating point subtotal that is followed
FloatCap == 4

IntKinds == {"signed", "unsigned"}
WKinds == IntKinds \cup {"float"}
Builds == {"debug", "release"}
WMax(kind) == IF kind = "signed" THEN Pow2(WBits - 1) - 1 ELSE Pow2(WBits) - 1
WMin(kind) == IF kind = "signed" THEN 0 - Pow2(WBits - 1) ELSE 0
WWrap(kind, x) == ((x - WMin(kind)) % Pow2(WBits)) + WMin(kind)
InW(kind, x) == WMin(kind) <= x /\ x <= WMax(kind)

\* the unit in the last place of x >= 0, searched upwards from u
RECURSIVE Ulp(_, _)
Ulp(x, u) == IF x < Pow2(MantBits) * u THEN u ELSE Ulp(x, 2 * u)
\* round to nearest, ties to even
RoundPos(x) ==
    LET u == Ulp(x, 1)
        lo == (x \div u) * u
        rem == x - lo
    IN  IF 2 * rem < u THEN lo
        ELSE IF 2 * rem > u THEN lo + u
        ELSE IF (lo \div u) % 2 = 0 THEN lo ELSE lo + u
Round(x) == IF x < 0 THEN 0 - RoundPos(0 - x) ELSE RoundPos(x)

\* Weight::checked_add_assign
CheckedAdd(kind, a, b) ==
    IF kind = "float" THEN [ok |-> TRUE, v |-> Round(a + b)]
    ELSE IF InW(kind, a + b) THEN [ok |-> TRUE, v |-> a + b] ELSE [ok |-> FALSE, v |-> a]

\* SubAssign for W; ok = FALSE is the overflow panic of a debug build
SubAssign(kind, a, b, build) ==
    IF kind = "float" THEN [ok |-> TRUE, v |-> Round(a - b)]
    ELSE IF InW(kind, a - b) THEN [ok |-> TRUE, v |-> a - b]
    ELSE IF build = "debug" THEN [ok |-> FALSE, v |-> a]
    ELSE [ok |-> TRUE, v |-> WWrap(kind, a - b)]

\* WeightedTreeIndex::subtotal
Subtotal(st, index) == IF index < Len(st) THEN st[index + 1] ELSE 0

\* WeightedTreeIndex::new, the loop `for i in (1..n).rev()` from i down
RECURSIVE NewWalk(_, _, _)
NewWalk(kind, st, i) ==
    IF i < 1 THEN [res |-> "Ok", st |-> st]
    ELSE LET parent == (i - 1) \div 2
             r == CheckedAdd(kind, st[parent + 1], st[i + 1])
         IN  IF ~r.ok THEN [res |-> "Overflow", st |-> <<>>]
             ELSE NewWalk(kind, [st EXCEPT ![parent + 1] = r.v], i - 1)

\* variant: the weights are stored as they are, no subtotal is accumulated
TreeNew_Flat(kind, weights) ==
    IF \E i \in DOMAIN weights : weights[i] < 0
    THEN [res |-> "InvalidWeight", st |-> <<>>]
    ELSE [res |-> "Ok", st |-> weights]

\* variant: the subtotals are accumulated first, the signs are tested after
TreeNew_SumFirst(kind, weights) ==
    LET r == NewWalk(kind, weights, Len(weights) - 1)
    IN  IF r.res # "Ok" THEN r
        ELSE IF \E i \in DOMAIN weights : weights[i] < 0
        THEN [res |-> "InvalidWeight", st |-> <<>>]
        ELSE r

\* WeightedTreeIndex::new
TreeNew(kind, weights) ==
    IF \E i \in DOMAIN weights : weights[i] < 0
    THEN [res |-> "InvalidWeight", st |-> <<>>]
    ELSE NewWalk(kind, weights, Len(weights) - 1)

\* WeightedTreeIndex::len
TreeLen(st) == Len(st)

\* WeightedTreeIndex::get
TreeGet(kind, st, index, build) ==
    IF index >= Len(st) THEN [res |-> "panic", v |-> 0]
    ELSE LET a == SubAssign(kind, st[index + 1], Subtotal(st, 2 * index + 1), build)
             b == SubAssign(kind, a.v, Subtotal(st, 2 * index + 2), build)
         IN  IF a.ok /\ b.ok THEN [res |-> "Ok", v |-> b.v]
             ELSE [res |-> "panic", v |-> 0]

\* the loop `while index != 0 { index = (index - 1) / 2; subtotals[index] -= &weight }`
RECURSIVE SubWalk(_, _, _, _, _)
SubWalk(kind, st, index, weight, build) ==
    IF index = 0 THEN [res |-> "Ok", st |-> st]
    ELSE LET parent == (index - 1) \div 2
             r == SubAssign(kind, st[parent + 1], weight, build)
         IN  IF ~r.ok THEN [res |-> "panic", st |-> st]
             ELSE SubWalk(kind, [st EXCEPT ![parent + 1] = r.v], parent, weight, build)

\* variant: the last element is removed, its ancestors keep their subtotals
TreePop_Leaf(kind, st, build) ==
    IF Len(st) = 0 THEN [res |-> "None", v |-> 0, st |-> st]
    ELSE [res |-> "Some", v |-> st[Len(st)], st |-> SubSeq(st, 1, Len(st) - 1)]

\* WeightedTreeIndex::pop
TreePop(kind, st, build) ==
    IF Len(st) = 0 THEN [res |-> "None", v |-> 0, st |-> st]
    ELSE LET weight == st[Len(st)]
             rest == SubSeq(st, 1, Len(st) - 1)
             r == SubWalk(kind, rest, Len(rest), weight, build)
         IN  [res |-> IF r.res = "Ok" THEN "Some" ELSE "panic",
              v |-> weight, st |-> r.st]

\* variant: the weight reaches the parent of index and no ancestor above it
AddWalk_Parent(kind, st, index, weight) ==
    IF index = 0 THEN [res |-> "Ok", st |-> st]
    ELSE LET parent == (index - 1) \div 2
             r == CheckedAdd(kind, st[parent + 1], weight)
         IN  IF ~r.ok THEN [res |-> "panic", st |-> st]
             ELSE [res |-> "Ok", st |-> [st EXCEPT ![parent + 1] = r.v]]

\* the loop `while index != 0 { index = (index - 1) / 2;
\* subtotals[index].checked_add_assign(&weight).unwrap() }`
RECURSIVE AddWalk(_, _, _, _)
AddWalk(kind, st, index, weight) ==
    IF index = 0 THEN [res |-> "Ok", st |-> st]
    ELSE LET parent == (index - 1) \div 2
             r == CheckedAdd(kind, st[parent + 1], weight)
         IN  IF ~r.ok THEN [res |-> "panic", st |-> st]
             ELSE AddWalk(kind, [st EXCEPT ![parent + 1] = r.v], parent, weight)

\* variant: no check of the total before the walk; an overflow surfaces at
\* the unwrap of the ancestor where it happens
TreePush_NoPrecheck(kind, st, weight) ==
    IF weight < 0 THEN [res |-> "InvalidWeight", st |-> st]
    ELSE AddWalk(kind, Append(st, weight), Len(st), weight)

\* WeightedTreeIndex::push
TreePush(kind, st, weight) ==
    IF weight < 0 THEN [res |-> "InvalidWeight", st |-> st]
    ELSE IF Len(st) > 0 /\ ~CheckedAdd(kind, st[1], weight).ok
    THEN [res |-> "Overflow", st |-> st]
    ELSE AddWalk(kind, Append(st, weight), Len(st), weight)

\* variant: the difference reaches the ancestors of index but not index itself
TreeUpdate_Ancestors(kind, st, index, weight, build) ==
    IF weight < 0 THEN [res |-> "InvalidWeight", st |-> st]
    ELSE LET g == TreeGet(kind, st, index, build)
             d == SubAssign(kind, weight, g.v, build)
         IN  IF g.res = "panic" \/ ~d.ok THEN [res |-> "panic", st |-> st]
             ELSE IF d.v = 0 THEN [res |-> "Ok", st |-> st]
             ELSE IF ~CheckedAdd(kind, st[1], d.v).ok
             THEN [res |-> "Overflow", st |-> st]
             ELSE AddWalk(kind, st, index, d.v)

\* variant: no check of the total beforehand, the overflow is reported from
\* the place in the walk where it happens
TreeUpdate_NoPrecheck(kind, st, index, weight, build) ==
    IF weight < 0 THEN [res |-> "InvalidWeight", st |-> st]
    ELSE LET g == TreeGet(kind, st, index, build)
             d == SubAssign(kind, weight, g.v, build)
         IN  IF g.res = "panic" \/ ~d.ok THEN [res |-> "panic", st |-> st]
             ELSE IF d.v = 0 THEN [res |-> "Ok", st |-> st]
             ELSE LET r == CheckedAdd(kind, st[index + 1], d.v)
                      a == AddWalk(kind, [st EXCEPT ![index + 1] = r.v], index, d.v)
                  IN  IF ~r.ok THEN [res |-> "Overflow", st |-> st]
                      ELSE IF a.res = "panic" THEN [res |-> "Overflow", st |-> a.st]
                      ELSE a

\* WeightedTreeIndex::update
TreeUpdate(kind, st, index, weight, build) ==
    IF weight < 0 THEN [res |-> "InvalidWeight", st |-> st]
    ELSE LET g == TreeGet(kind, st, index, build)
             d == SubAssign(kind, weight, g.v, build)
         IN  IF g.res = "panic" \/ ~d.ok THEN [res |-> "panic", st |-> st]
             ELSE IF d.v = 0 THEN [res |-> "Ok", st |-> st]
             ELSE IF ~CheckedAdd(kind, st[1], d.v).ok
             THEN [res |-> "Overflow", st |-> st]
             ELSE LET r == CheckedAdd(kind, st[index + 1], d.v)
                  IN  IF ~r.ok THEN [res |-> "panic", st |-> st]
                      ELSE AddWalk(kind, [st EXCEPT ![index + 1] = r.v], index, d.v)

\* variant: every tree that has an element can be sampled
CanSample_NonEmpty(st) == Len(st) > 0

\* WeightedTreeIndex::can_sample
CanSample(st) == IF Len(st) > 0 THEN st[1] > 0 ELSE FALSE

\* variant: the left subtotal is not taken off the draw before the right
\* subtree is tried
RECURSIVE Descend_KeepDraw(_, _, _, _, _)
Descend_KeepDraw(kind, st, index, t, build) ==
    LET left_index == 2 * index + 1
        left_subtotal == Subtotal(st, left_index)
        right_index == 2 * index + 2
        right_subtotal == Subtotal(st, right_index)
        t2 == SubAssign(kind, t, right_subtotal, build)
    IN  IF t < left_subtotal THEN Descend_KeepDraw(kind, st, left_index, t, build)
        ELSE IF t < right_subtotal THEN Descend_KeepDraw(kind, st, right_index, t, build)
        ELSE IF ~t2.ok THEN [res |-> "panic", index |-> index, t |-> t]
        ELSE IF t2.v >= 0 /\ t2.v < Subtotal(st, index)
        THEN [res |-> "Ok", index |-> index, t |-> t2.v]
        ELSE [res |-> "panic", index |-> index, t |-> t2.v]

\* variant: the right subtree is tried before the left one
RECURSIVE Descend_RightFirst(_, _, _, _, _)
Descend_RightFirst(kind, st, index, t, build) ==
    LET left_index == 2 * index + 1
        left_subtotal == Subtotal(st, left_index)
        right_index == 2 * index + 2
        right_subtotal == Subtotal(st, right_index)
        t1 == SubAssign(kind, t, right_subtotal, build)
        t2 == SubAssign(kind, t1.v, left_subtotal, build)
    IN  IF t < right_subtotal THEN Descend_RightFirst(kind, st, right_index, t, build)
        ELSE IF ~t1.ok THEN [res |-> "panic", index |-> index, t |-> t]
        ELSE IF t1.v < left_subtotal THEN Descend_RightFirst(kind, st, left_index, t1.v, build)
        ELSE IF ~t2.ok THEN [res |-> "panic", index |-> index, t |-> t1.v]
        ELSE IF t2.v >= 0 /\ t2.v < Subtotal(st, index)
        THEN [res |-> "Ok", index |-> index, t |-> t2.v]
        ELSE [res |-> "panic", index |-> index, t |-> t2.v]

\* the loop of sample from index on, with target_weight = t, and the two
\* assertions behind it
RECURSIVE Descend(_, _, _, _, _)
Descend(kind, st, index, t, build) ==
    LET left_index == 2 * index + 1
        left_subtotal == Subtotal(st, left_index)
        t1 == SubAssign(kind, t, left_subtotal, build)
        right_index == 2 * index + 2
        right_subtotal == Subtotal(st, right_index)
        t2 == SubAssign(kind, t1.v, right_subtotal, build)
    IN  IF t < left_subtotal THEN Descend(kind, st, left_index, t, build)
        ELSE IF ~t1.ok THEN [res |-> "panic", index |-> index, t |-> t]
        ELSE IF t1.v < right_subtotal THEN Descend(kind, st, right_index, t1.v, build)
        ELSE IF ~t2.ok THEN [res |-> "panic", index |-> index, t |-> t1.v]
        ELSE IF t2.v >= 0 /\ t2.v < Subtotal(st, index)
        THEN [res |-> "Ok", index |-> index, t |-> t2.v]
        ELSE [res |-> "panic", index |-> index, t |-> t2.v]

\* the values rng.gen_range(W::ZERO..total_weight) can return
Draws(kind, total) ==
    {d \in 0 .. total - 1 : kind = "float" => Round(d) = d}

\* Distribution::sample with the draw the generator delivers; an empty range
\* makes gen_range panic
TreeSample(kind, st, draw, build) ==
    IF Len(st) = 0 THEN [res |-> "NoItem", index |-> 0, t |-> 0]
    ELSE IF st[1] = 0 THEN [res |-> "AllWeightsZero", index |-> 0, t |-> 0]
    ELSE IF st[1] < 0 THEN [res |-> "panic", index |-> 0, t |-> 0]
    ELSE Descend(kind, st, 0, draw, build)

\* variant: the left subtree is entered when the draw equals its subtotal
SampleIter_Inclusive(kind, st, index, t, build) ==
    LET left_index == 2 * index + 1
        left_subtotal == Subtotal(st, left_index)
        t1 == SubAssign(kind, t, left_subtotal, build)
        right_index == 2 * index + 2
        right_subtotal == Subtotal(st, right_index)
        t2 == SubAssign(kind, t1.v, right_subtotal, build)
    IN  IF t <= left_subtotal THEN [next |-> "continue", index |-> left_index, t |-> t]
        ELSE IF ~t1.ok THEN [next |-> "panic", index |-> index, t |-> t]
        ELSE IF t1.v < right_subtotal
        THEN [next |-> "continue", index |-> right_index, t |-> t1.v]
        ELSE IF ~t2.ok THEN [next |-> "panic", index |-> index, t |-> t1.v]
        ELSE [next |-> "break", index |-> index, t |-> t2.v]
\* one iteration of the loop of sample: `continue` with the child it enters,
\* or `break` with the index it stays at
SampleIter(kind, st, index, t, build) ==
    LET left_index == 2 * index + 1
        left_subtotal == Subtotal(st, left_index)
        t1 == SubAssign(kind, t, left_subtotal, build)
        right_index == 2 * index + 2
        right_subtotal == Subtotal(st, right_index)
        t2 == SubAssign(kind, t1.v, right_subtotal, build)
    IN  IF t < left_subtotal THEN [next |-> "continue", index |-> left_index, t |-> t]
        ELSE IF ~t1.ok THEN [next |-> "panic", index |-> index, t |-> t]
        ELSE IF t1.v < right_subtotal
        THEN [next |-> "continue", index |-> right_index, t |-> t1.v]
        ELSE IF ~t2.ok THEN [next |-> "panic", index |-> index, t |-> t1.v]
        ELSE [next |-> "break", index |-> index, t |-> t2.v]

\* ------------------------------------------------------------ Error
\* rand_core's error type: an ErrorKind, a message and, with the `std`
\* feature, an optional cause.
ErrorKinds == {"Unavailable", "Transient", "NotReady", "Other", "__Nonexhaustive"}
\* messages are 'static strings; two of them stand for all
ErrorMsgs == {"m1", "m2"}
\* what a caller can chain as the cause
ErrorCauses == {"io", "fmt"}
Features == {"std", "no_std"}

\* a should_retry that also retries uncategorised errors
ShouldRetry_Other(kind) == kind \in {"Transient", "NotReady", "Other"}
\* ErrorKind::should_retry: Transient | NotReady => true, _ => false
ShouldRetry(kind) ==
    CASE kind \in {"Transient", "NotReady"} -> TRUE
      [] OTHER -> FALSE
\* ErrorKind::should_wait: NotReady => true, _ => false
ShouldWait(kind) ==
    CASE kind = "NotReady" -> TRUE
      [] OTHER -> FALSE
\* ErrorKind::description; the hidden variant hits unreachable!()
Description(kind) ==
    CASE kind = "Unavailable" -> "permanent failure or unavailable"
      [] kind = "Transient" -> "transient failure"
      [] kind = "NotReady" -> "not ready yet"
      [] kind = "Other" -> "uncategorised"
      [] kind = "__Nonexhaustive" -> "panic"
\* Error::new: no cause
ErrorNew(kind, msg) == [kind |-> kind, msg |-> msg, cause |-> "None"]
\* Error::new_with_cause: the cause is kept with `std` and ignored without
ErrorNewWithCause(kind, msg, cause, feature) ==
    [kind |-> kind, msg |-> msg,
     cause |-> IF feature = "std" THEN cause ELSE "None"]

\* ------------------------------------------------------------ forwarding
\* rand_core's Rng is implemented for &mut R and for Box<R>, R: Rng + ?Sized.
\* The wrapped generator R is any implementor of the trait; the one here
\* counts the words it has handed out, modulo GenMod, and is an external
\* generator: try_fill reports the failure of its source as an Error, the
\* other methods panic on it.
GenMod == 6
MaxWrap == 2
RngMethods == {"next_u32", "next_u64", "fill_bytes", "try_fill"}
FwdLens == {0, 1, 5}
\* what the source of the generator does when asked
PublicKinds == ErrorKinds \ {"__Nonexhaustive"}
SourceOutcomes == {"ok"} \cup PublicKinds
\* words consumed by a call
WordsOf(method, n) ==
    CASE method = "next_u32" -> 1
      [] method = "next_u64" -> 2
      [] OTHER -> (n + 3) \div 4
\* R's own methods: the state after the call and what the call returned
GenCall(method, g, n, env) ==
    IF env = "ok" \/ WordsOf(method, n) = 0
    THEN [g |-> (g + WordsOf(method, n)) % GenMod,
          ret |-> IF method \in {"next_u32", "next_u64"} THEN "value" ELSE "Ok",
          val |-> IF method = "try_fill" \/ method = "fill_bytes" THEN <<g, n>> ELSE <<g>>,
          kind |-> "none"]
    ELSE IF method = "try_fill"
    THEN [g |-> g, ret |-> "Err", val |-> <<>>, kind |-> env]
    ELSE [g |-> g, ret |-> "panic", val |-> <<>>, kind |-> "none"]

\* a value of type R, &mut R, Box<R>, &mut Box<R>, ...: the layers around
\* the generator, outermost first
WrapLayers == UNION {[1 .. d -> {"ref", "box"}] : d \in 0 .. MaxWrap}
RECURSIVE Call(_, _, _, _, _)
\* a &mut R that reports every failure as ErrorKind::Other
RefCall_OtherKind(inner, method, g, n, env) ==
    LET r == Call(inner, method, g, n, env)
    IN  [r EXCEPT !.kind = IF r.ret = "Err" THEN "Other" ELSE r.kind]
\* impl Rng for &'a mut R: every method is (**self).method(..)
RefCall(inner, method, g, n, env) == Call(inner, method, g, n, env)
\* impl Rng for Box<R>: every method is (**self).method(..)
BoxCall(inner, method, g, n, env) == Call(inner, method, g, n, env)
\* method dispatch on the type of the receiver
Call(layers, method, g, n, env) ==
    IF layers = <<>> THEN GenCall(method, g, n, env)
    ELSE IF Head(layers) = "ref" THEN RefCall(Tail(layers), method, g, n, env)
    ELSE BoxCall(Tail(layers), method, g, n, env)

\* ------------------------------------------------------------ Bernoulli
\* The widths keep the order of the source's: the ratio's u32 is narrower
\* than the f64 mantissa (53 bits), which is narrower than p_int's u64.
RatioBits == 2
BernMant == 3
PBits == 4
RatioInputs == 0 .. (Pow2(RatioBits) - 1)
\* const ALWAYS_TRUE: u64 = u64::MAX
ALWAYS_TRUE == Pow2(PBits) - 1
\* the exponent e that puts n * 2^e / d into [2^(BernMant-1), 2^BernMant)
RECURSIVE MantExp(_, _, _)
MantExp(n, d, e) ==
    IF (n * Pow2(e)) \div d >= Pow2(BernMant - 1) THEN e ELSE MantExp(n, d, e + 1)
\* numerator as f64 / denominator as f64, for 0 < n < d: the quotient
\* rounded to BernMant significant bits, ties to even, as m / 2^e
DivF64(n, d) ==
    LET e == MantExp(n, d, 0)
        f == (n * Pow2(e)) \div d
        r == (n * Pow2(e)) % d
        m == IF 2 * r > d \/ (2 * r = d /\ f % 2 = 1) THEN f + 1 ELSE f
    IN  [m |-> m, e |-> e]
\* (q * SCALE) as u64: the product is exact, the cast truncates and saturates
ScaleAsU64(q) ==
    LET t == (q.m * Pow2(PBits)) \div Pow2(q.e)
    IN  IF t > ALWAYS_TRUE THEN ALWAYS_TRUE ELSE t
\* Bernoulli::from_ratio
FromRatio(numerator, denominator) ==
    IF ~(numerator <= denominator) THEN [res |-> "panic", p_int |-> 0]
    ELSE IF numerator = denominator THEN [res |-> "Ok", p_int |-> ALWAYS_TRUE]
    ELSE [res |-> "Ok",
          p_int |-> IF numerator = 0 THEN 0
                    ELSE ScaleAsU64(DivF64(numerator, denominator))]
\* Distribution::sample for Bernoulli, v being rng.gen::<u64>()
BernSample(p_int, v) == IF p_int = ALWAYS_TRUE THEN TRUE ELSE v < p_int

\* ------------------------------------------------------------ state
\* The model follows one generator value.  A clone shares nothing with the
\* generator it was made from (clone takes &self and returns an owned copy),
\* so after Clone the model follows the clone and the record of the operation
\* keeps the source as it was left.
VARIABLES
    rng,    \* the generator: ReseedingRng = BlockRng<ReseedingCore>
    obs,    \* the observer's record of it
    last    \* the last operation: what was asked, what it returned, what it did

\* ThreadRng
VARIABLES
    key,      \* per thread, the slot of THREAD_RNG_KEY
    heap,     \* per address, the Rc<UnsafeCell<InnerState>> allocated there
    handles,  \* per handle id, the ThreadRng value: its thread and its Rc
    pc,       \* per thread, the method of ThreadRng it is inside of
    os,       \* calls of the OS entropy source made so far
    tlast     \* the last step of a thread

\* WeightedTreeIndex
VARIABLES
    wtree,    \* the tree: its weight type, its subtotals, and whether it exists
    wlast     \* the last operation on it

rvars == <<rng, obs, last>>
tvars == <<key, heap, handles, pc, os, tlast>>
\* Error
VARIABLES
    err,      \* the Error value at hand: its kind, its message and its cause
    elast     \* the last operation on it

\* forwarding wrappers
VARIABLES
    direct,   \* a generator R that is called directly
    wrapped,  \* an equal generator that is called through &mut R / Box<R>
    flast     \* the last call: what each of the two returned

\* the loops of WeightedTreeIndex, one iteration at a time
VARIABLES
    walk      \* the loop that is running: its index, its target, its count

\* Bernoulli
VARIABLES
    bern,     \* the distribution at hand: whether it exists, and its p_int
    blast     \* the last operation: from_ratio or sample

wvars == <<wtree, wlast>>
evars == <<err, elast>>
fvars == <<direct, wrapped, flast>>
bvars == <<bern, blast>>
vars == <<rvars, tvars, wvars, evars, fvars, bvars, walk>>

\* no thread has touched THREAD_RNG_KEY
NoHandle == [thread |-> "none", cell |-> 0]
Idle == [op |-> "idle", h |-> NoHandle, n |-> 0, ref |-> 0]
NoThreads ==
    /\ key = [t \in Threads |-> [st |-> "uninit", cell |-> 0]]
    /\ heap = [a \in Addrs |-> Unalloc]
    /\ handles = [hv \in HandleVals |-> 0]
    /\ pc = [t \in Threads |-> Idle]
    /\ os = 0
    /\ tlast = [t |-> "none", op |-> "start", h |-> NoHandle, n |-> 0, o |-> "ok",
                pre |-> NoState, ret |-> "none", asked |-> FALSE,
                out |-> [seed |-> 0, pos |-> 0, n |-> 0]]

\* the state after WeightedTreeIndex::<W>::new(weights) returned r
NoPush == [st |-> <<>>, w |-> 0, ok |-> FALSE]
TreeState(kind, weights, r) ==
    [wtree |-> [kind |-> kind, st |-> r.st, some |-> r.res = "Ok"],
     wlast |-> [op |-> "new", ws |-> weights, i |-> 0, w |-> 0, ret |-> r.res,
                v |-> 0, pre |-> <<>>, push |-> NoPush]]
\* no tree constructed yet
TreeAtRest ==
    /\ wtree = [kind |-> "signed", st |-> <<>>, some |-> FALSE]
    /\ wlast = [op |-> "none", ws |-> <<>>, i |-> 0, w |-> 0, ret |-> "Ok",
                v |-> 0, pre |-> <<>>, push |-> NoPush]

\* no Error constructed yet
ErrorAtRest ==
    /\ err = [kind |-> "none", msg |-> "none", cause |-> "None"]
    /\ elast = [op |-> "none", b |-> FALSE, s |-> "none"]

\* two equal generators, nothing called yet
NoCall == [g |-> 0, ret |-> "none", val |-> <<>>, kind |-> "none"]
ForwardAtRest ==
    /\ direct = 0
    /\ wrapped = 0
    /\ flast = [method |-> "none", layers |-> <<>>, n |-> 0, env |-> "ok",
                pre |-> 0, d |-> NoCall, w |-> NoCall]

\* no loop has run
NoWalk == [op |-> "none", index |-> 0, t |-> 0, w |-> 0, iters |-> 0,
           done |-> "none", goal |-> <<>>]
WalkAtRest == walk = NoWalk

\* no Bernoulli constructed yet
BernAtRest ==
    /\ bern = [some |-> FALSE, p_int |-> 0]
    /\ blast = [op |-> "none", numerator |-> 0, denominator |-> 0, ret |-> "Ok",
                v |-> 0, b |-> FALSE]

\* destination lengths of fill_bytes / try_fill_bytes
FillLens == {0, 1, NumBytes + 1}

\* the most calls of generate one operation makes: a fill of NumBytes + 1
\* bytes that finds the buffer empty
MaxGen == (NumBytes + 1 + NumBytes - 1) \div NumBytes
Envs == [1 .. MaxGen -> Outcomes]

\* thresholds a generator is constructed with: no limit, and budgets of less
\* than, exactly and more than one block
ThresholdInputs == {0, 1, NumBytes, NumBytes + 1}

\* since:  bytes generated since construction or since the budget was last set
\* zero:   constructed with threshold 0
\* manual: reseed() has been called on the constructed generator
\* cloned: the generator is a clone; and of a clone,
\*   first:    generate has not been called on it yet
\*   reseeded: a reseed of it has succeeded
\*   failed:   an automatic reseed attempt of it has failed
\* prev:   what the last call of generate did about reseeding ("None", "Ok",
\*         "Err"); "none" before the first call and after a manual reseed
\*         that succeeded
Obs0(zero, cloned) ==
    [since |-> 0, first |-> cloned, manual |-> FALSE, reseeded |-> FALSE,
     failed |-> FALSE, zero |-> zero, cloned |-> cloned, prev |-> "none"]

\* the state after ReseedingRng::new(FromSeed(seed), t, StepRng::new(v, a))
NewState(seed, t, v, a) ==
    [rng  |-> RngNew(FromSeed(seed), t, [v |-> v, a |-> a]),
     obs  |-> Obs0(t = 0, FALSE),
     last |-> [op |-> "new", n |-> t, ret |-> "Ok", out |-> <<>>,
               events |-> <<>>, filled |-> 0, index0 |-> BlockWords]]

Constructed(seed, t, v, a) ==
    LET s == NewState(seed, t, v, a)
    IN  rng = s.rng /\ obs = s.obs /\ last = s.last

\* The inner generator starts from a seed the reseed source never yields
\* (NSeeds), so that a reseeded generator differs from the initial one.  The
\* reseed source is StepRng::new(0, a): constant (a = 0, as in the tests) or
\* stepping through the seeds.
Init ==
    /\ \E t \in ThresholdInputs, a \in {0, 1} : Constructed(NSeeds, t, 0, a)
    /\ NoThreads
    /\ TreeAtRest
    /\ ErrorAtRest
    /\ ForwardAtRest
    /\ BernAtRest
    /\ WalkAtRest

Start == [rng |-> rng, obs |-> obs, out |-> <<>>, events |-> <<>>,
          k |-> 0, filled |-> 0, ret |-> "none"]

\* the effect of a generation call that ended in st, having asked the reseed
\* source what env says (an outcome that was not asked for is "ok")
Finish(op, n, st, env) ==
    /\ st.rng.core.inner.ctr <= MaxCtr
    /\ \A i \in 1 .. MaxGen :
          (i > st.k \/ st.events[i].reseed = "None") => env[i] = "ok"
    /\ rng' = st.rng
    /\ obs' = st.obs
    /\ last' = [op |-> op, n |-> n, ret |-> st.ret, out |-> st.out,
                events |-> st.events, filled |-> st.filled, index0 |-> rng.index]
    /\ UNCHANGED <<tvars, wvars, evars, fvars, bvars, walk>>

NextU32 ==
    \E env \in Envs : Finish("next_u32", 4, RngNextU32(Start, env), env)

NextU64 ==
    \E env \in Envs : Finish("next_u64", 8, RngNextU64(Start, env), env)

FillBytes ==
    \E n \in FillLens, env \in Envs :
        Finish("fill_bytes", n, RngFillBytes(Start, n, env), env)

TryFillBytes ==
    \E n \in FillLens, env \in Envs :
        Finish("try_fill_bytes", n, RngTryFillBytes(Start, n, env), env)

\* a manual reseed
Reseed ==
    \E o \in Outcomes :
        LET r  == RngReseed(rng, o)
            ev == [pre |-> rng.core, ob |-> obs, o |-> o,
                   reseed |-> r.res, block |-> rng.results]
        IN  /\ rng' = r.rng
            /\ obs' = [obs EXCEPT !.manual   = ~obs.cloned,
                                  !.since    = IF r.res = "Ok" THEN 0 ELSE @,
                                  !.prev     = IF r.res = "Ok" THEN "none" ELSE @,
                                  !.reseeded = @ \/ (obs.cloned /\ r.res = "Ok")]
            /\ last' = [op |-> "reseed", n |-> 0, ret |-> r.res, out |-> <<>>,
                        events |-> <<ev>>, filled |-> 0, index0 |-> rng.index]
            /\ UNCHANGED <<tvars, wvars, evars, fvars, bvars, walk>>

\* the generator is cloned (once); the event records the source
Clone ==
    /\ ~obs.cloned
    /\ LET ev == [pre |-> rng.core, ob |-> obs, o |-> "ok",
                  reseed |-> "None", block |-> rng.results]
       IN  /\ rng' = RngClone(rng)
           /\ obs' = Obs0(obs.zero, TRUE)
           /\ last' = [op |-> "clone", n |-> 0, ret |-> "Ok", out |-> <<>>,
                       events |-> <<ev>>, filled |-> 0, index0 |-> rng.index]
           /\ UNCHANGED <<tvars, wvars, evars, fvars, bvars, walk>>

Next ==
    \/ NextU32
    \/ NextU64
    \/ FillBytes
    \/ TryFillBytes
    \/ Reseed
    \/ Clone

Spec == Init /\ [][Next]_vars

\* ------------------------------------------------------------ construction
\* The constructor alone, over every u64 threshold, every state of the reseed
\* source and every seed of the inner generator.
InitNew ==
    /\ \E t \in 0 .. U64_MAX, v \in Seeds, a \in {0, 1}, seed \in 0 .. NSeeds :
           Constructed(seed, t, v, a)
    /\ NoThreads
    /\ TreeAtRest
    /\ ErrorAtRest
    /\ ForwardAtRest
    /\ BernAtRest
    /\ WalkAtRest

Construct ==
    \E t \in 0 .. U64_MAX, v \in Seeds, a \in {0, 1}, seed \in 0 .. NSeeds :
        LET s == NewState(seed, t, v, a)
        IN  rng' = s.rng /\ obs' = s.obs /\ last' = s.last /\ UNCHANGED <<tvars, wvars, evars, fvars, bvars, walk>>

SpecNew == InitNew /\ [][Construct]_vars

\* ------------------------------------------------------------ threads
\* Every thread runs its own code one method at a time; threads interleave.
\* A method of ThreadRng that takes `&mut *self.rng.get()` is two steps, the
\* one that creates the reference and the one that does the rest and returns,
\* so that other threads run while the reference is live.
\* Handle values are told apart by what they hold: `handles` counts, for every
\* thread and address, the ThreadRng values of that thread whose Rc points to
\* that address.
TFillLens == {0, 1, RESEED_THRESHOLD + 1, I64_MAX}
TOps == {<<"next_u32", 4>>, <<"next_u64", 8>>, <<"reseed", 0>>}
           \cup {<<"fill_bytes", n>> : n \in TFillLens}

NoOut == [seed |-> 0, pos |-> 0, n |-> 0]
Live(hv) == handles[hv] > 0

RECURSIVE Total(_, _)
Total(f, S) ==
    IF S = {} THEN 0
    ELSE LET x == CHOOSE y \in S : TRUE IN f[x] + Total(f, S \ {x})

NumHandles == Total(handles, HandleVals)
\* the ThreadRng values whose Rc points to address a
HandlesOn(a) == Total(handles, {hv \in HandleVals : hv.cell = a})

\* A departure from the state being thread-local: every handle reaches the
\* state at one address.
BorrowMut_Global(handle) == 1

\* `unsafe { &mut *self.rng.get() }`: the cell the reference points into
BorrowMut(handle) == handle.cell

\* ThreadRng::new() / ThreadRng::default() on a thread of T
TAcquire(T, maxos) ==
    \E t \in T, o \in OsOutcomes :
        LET r  == KeyWithClone(key[t], heap, t, os + 1, o)
            hv == [thread |-> t, cell |-> r.res]
        IN  /\ pc[t] = Idle
            /\ NumHandles < MaxHandles
            /\ \E a \in Addrs : heap[a].st = "unalloc"
            /\ r.asked \/ o = "ok"
            /\ r.asked => os < maxos
            /\ key' = [key EXCEPT ![t] = r.slot]
            /\ heap' = r.mem
            /\ handles' = IF r.res = 0 THEN handles
                          ELSE [handles EXCEPT ![hv] = @ + 1]
            /\ os' = IF r.asked THEN os + 1 ELSE os
            /\ tlast' = [t |-> t, op |-> "new", h |-> IF r.res = 0 THEN NoHandle ELSE hv,
                         n |-> 0, o |-> o, pre |-> NoState,
                         ret |-> IF r.res = 0 THEN "panic" ELSE "handle",
                         asked |-> r.asked, out |-> NoOut]
            /\ UNCHANGED <<pc, rvars, wvars, evars, fvars, bvars, walk>>

\* handle.clone() by the thread that holds the handle
TCloneHandle ==
    \E hv \in HandleVals :
        /\ Live(hv)
        /\ pc[hv.thread] = Idle
        /\ NumHandles < MaxHandles
        /\ LET r == HandleClone(hv, heap)
           IN  /\ heap' = r.mem
               /\ handles' = [handles EXCEPT ![r.handle] = @ + 1]
               /\ tlast' = [t |-> hv.thread, op |-> "clone", h |-> r.handle,
                            n |-> 0, o |-> "ok", pre |-> heap[hv.cell].s,
                            ret |-> "handle", asked |-> FALSE, out |-> NoOut]
        /\ UNCHANGED <<key, pc, os, rvars, wvars, evars, fvars, bvars, walk>>

\* a handle goes out of scope
TDropHandle ==
    \E hv \in HandleVals :
        /\ Live(hv)
        /\ pc[hv.thread] = Idle
        /\ heap' = HandleDrop(hv, heap)
        /\ handles' = [handles EXCEPT ![hv] = @ - 1]
        /\ tlast' = [t |-> hv.thread, op |-> "drop", h |-> hv, n |-> 0,
                     o |-> "ok", pre |-> heap[hv.cell].s, ret |-> "unit",
                     asked |-> FALSE, out |-> NoOut]
        /\ UNCHANGED <<key, pc, os, rvars, wvars, evars, fvars, bvars, walk>>

\* thread t exits: the destructor of its THREAD_RNG_KEY slot runs.  Handles
\* the thread still has are those owned by its other thread-local objects,
\* whose destructors run later, use the handles and drop them.
TExit ==
    \E t \in Threads :
        /\ pc[t] = Idle
        /\ key[t].st # "destroyed"
        /\ LET r == KeyDestroy(key[t], heap)
           IN  /\ key' = [key EXCEPT ![t] = r.slot]
               /\ heap' = r.mem
        /\ tlast' = [t |-> t, op |-> "exit", h |-> NoHandle, n |-> 0, o |-> "ok",
                     pre |-> NoState, ret |-> "unit", asked |-> FALSE,
                     out |-> NoOut]
        /\ UNCHANGED <<handles, pc, os, rvars, wvars, evars, fvars, bvars, walk>>

\* a thread enters next_u32, next_u64, fill_bytes or reseed on one of its
\* handles and takes the mutable reference
TBegin(M) ==
    \E hv \in HandleVals, m \in M :
        /\ Live(hv)
        /\ pc[hv.thread] = Idle
        /\ pc' = [pc EXCEPT ![hv.thread] =
                      [op |-> m[1], h |-> hv, n |-> m[2], ref |-> BorrowMut(hv)]]
        /\ UNCHANGED <<key, heap, handles, os, tlast, rvars, wvars, evars, fvars, bvars, walk>>

\* the method runs on the state behind its reference and returns
TrngCall(op, s, n, k, o) ==
    CASE op = "next_u32" -> TrngNextU32(s, k, o)
      [] op = "next_u64" -> TrngNextU64(s, k, o)
      [] op = "fill_bytes" -> TrngFillBytes(s, n, k, o)
      [] op = "reseed" -> TrngReseed(s, k, o)

TComplete(maxpos, maxos) ==
    \E t \in Threads, o \in OsOutcomes :
        /\ pc[t] # Idle
        /\ LET a == pc[t].ref
               r == TrngCall(pc[t].op, heap[a].s, pc[t].n, os + 1, o)
           IN  /\ r.reseed = "None" => o = "ok"
               /\ r.reseed # "None" => os < maxos
               /\ r.s.rng.pos <= maxpos
               /\ heap' = [heap EXCEPT ![a].s = r.s]
               /\ os' = IF r.reseed = "None" THEN os ELSE os + 1
               /\ tlast' = [t |-> t, op |-> pc[t].op, h |-> pc[t].h, n |-> pc[t].n,
                            o |-> o, pre |-> heap[a].s, ret |-> r.ret,
                            asked |-> r.reseed # "None", out |-> r.out]
        /\ pc' = [pc EXCEPT ![t] = Idle]
        /\ UNCHANGED <<key, handles, rvars, wvars, evars, fvars, bvars, walk>>

\* format!("{:?}", handle)
TDebug ==
    \E hv \in HandleVals :
        /\ Live(hv)
        /\ pc[hv.thread] = Idle
        /\ tlast' = [t |-> hv.thread, op |-> "debug", h |-> hv, n |-> 0,
                     o |-> "ok", pre |-> heap[hv.cell].s,
                     ret |-> DebugFmt(hv, heap), asked |-> FALSE, out |-> NoOut]
        /\ UNCHANGED <<key, heap, handles, pc, os, rvars, wvars, evars, fvars, bvars, walk>>

\* the reseeding generator of the other specifications, at rest
ReseedingAtRest == Constructed(NSeeds, 1, 0, 0)

InitThreads == NoThreads /\ ReseedingAtRest /\ TreeAtRest /\ ErrorAtRest /\ ForwardAtRest /\ BernAtRest /\ WalkAtRest

\* One thread and every method of its handles, any destination length.
NextTrng ==
    \/ TAcquire({"t1"}, MaxOsCalls)
    \/ TBegin(TOps)
    \/ TComplete(MaxPos, MaxOsCalls)

SpecTrng == InitThreads /\ [][NextTrng]_vars

\* Every thread, with handles made, cloned and dropped and threads exiting;
\* of the methods, next_u64 and reseed.
SharedOps == {<<"next_u64", 8>>, <<"reseed", 0>>}

NextThreads ==
    \/ TAcquire(Threads, SharedOsCalls)
    \/ TCloneHandle
    \/ TDropHandle
    \/ TExit
    \/ TBegin(SharedOps)
    \/ TComplete(SharedPos, SharedOsCalls)
    \/ TDebug

SpecThreads == InitThreads /\ [][NextThreads]_vars

\* ------------------------------------------------------------ the tree
\* One tree value and the operations of its public interface.  new is an
\* associated function that reads no existing tree, so a behaviour constructs
\* once and then works on the result.  A panic unwinds out of the method; the
\* tree stays where the method left it.

\* weights offered to the operations: the small ones and the largest one
WLargest(kind) == IF kind = "float" THEN Pow2(MantBits) - 1 ELSE WMax(kind)
WInputs(kind) ==
    {0, 1, 2, WLargest(kind)}
        \cup (IF kind = "unsigned" THEN {} ELSE {0 - 1})
\* floating point subtotals stay within FloatCap
Bounded(kind, st) ==
    kind = "float" => \A i \in DOMAIN st : 0 - FloatCap <= st[i] /\ st[i] <= FloatCap
\* the lists of at most maxlen weights drawn from inputs[kind]
WeightLists(kind, maxlen, inputs) == UNION {[1 .. n -> inputs[kind]] : n \in 0 .. maxlen}

WRecord(op, i, w, r, v, pre, push) ==
    [op |-> op, ws |-> <<>>, i |-> i, w |-> w, ret |-> r, v |-> v,
     pre |-> pre, push |-> push]

WNew(maxlen, inputs) ==
    /\ wlast.op = "none"
    /\ \E kind \in WKinds : \E weights \in WeightLists(kind, maxlen, inputs) :
           LET s == TreeState(kind, weights, TreeNew(kind, weights))
           IN  Bounded(kind, s.wtree.st) /\ wtree' = s.wtree /\ wlast' = s.wlast
    /\ UNCHANGED <<rvars, tvars, evars, fvars, bvars, walk>>

WGet ==
    /\ wtree.some
    /\ \E index \in 0 .. Len(wtree.st) :
        \E r \in {TreeGet(wtree.kind, wtree.st, index, build) : build \in Builds} :
           wlast' = WRecord("get", index, 0, r.res, r.v, <<>>, NoPush)
    /\ UNCHANGED <<wtree, rvars, tvars, evars, fvars, bvars, walk>>

WPush(maxlen, inputs) ==
    /\ wtree.some
    /\ Len(wtree.st) < maxlen
    /\ \E weight \in inputs[wtree.kind] :
           LET r == TreePush(wtree.kind, wtree.st, weight)
           IN  /\ Bounded(wtree.kind, r.st)
               /\ wtree' = [wtree EXCEPT !.st = r.st]
               /\ wlast' = WRecord("push", 0, weight, r.res, 0, wtree.st, NoPush)
    /\ UNCHANGED <<rvars, tvars, evars, fvars, bvars, walk>>

WPop ==
    /\ wtree.some
    /\ \E r \in {TreePop(wtree.kind, wtree.st, build) : build \in Builds} :
           LET push == IF wlast.op = "push" /\ wlast.ret = "Ok"
                       THEN [st |-> wlast.pre, w |-> wlast.w, ok |-> TRUE]
                       ELSE NoPush
           IN  /\ Bounded(wtree.kind, r.st)
               /\ wtree' = [wtree EXCEPT !.st = r.st]
               /\ wlast' = WRecord("pop", 0, 0, r.res, r.v, wtree.st, push)
    /\ UNCHANGED <<rvars, tvars, evars, fvars, bvars, walk>>

WUpdate(inputs) ==
    /\ wtree.some
    /\ \E index \in 0 .. Len(wtree.st), weight \in inputs[wtree.kind] :
        \E r \in {TreeUpdate(wtree.kind, wtree.st, index, weight, build) : build \in Builds} :
               /\ Bounded(wtree.kind, r.st)
               /\ wtree' = [wtree EXCEPT !.st = r.st]
               /\ wlast' = WRecord("update", index, weight, r.res, 0, wtree.st, NoPush)
    /\ UNCHANGED <<rvars, tvars, evars, fvars, bvars, walk>>

\* the draw is recorded in w, the index returned in i and what is left of the
\* draw in v; a sample that returns or panics before it draws has draw 0
WSample ==
    /\ wtree.some
    /\ \E draw \in Draws(wtree.kind, Subtotal(wtree.st, 0)) \cup {0} :
        \E r \in {TreeSample(wtree.kind, wtree.st, draw, build) : build \in Builds} :
           wlast' = WRecord("sample", r.index, draw, r.res, r.t, wtree.st, NoPush)
    /\ UNCHANGED <<wtree, rvars, tvars, evars, fvars, bvars, walk>>

InitTree == TreeAtRest /\ NoThreads /\ ReseedingAtRest /\ ErrorAtRest /\ ForwardAtRest /\ BernAtRest /\ WalkAtRest
NextTree ==
    \/ WNew(MaxLen, [kind \in WKinds |-> WInputs(kind)])
    \/ WGet
    \/ WPush(MaxLen, [kind \in WKinds |-> WInputs(kind)])
    \/ WPop
    \/ WUpdate([kind \in WKinds |-> WInputs(kind)])
    \/ WSample
SpecTree == InitTree /\ [][NextTree]_vars

\* Longer trees, in which an inner node has two children, over fewer weights.
\* longest tree
DeepLen == 5
DeepInputs(kind) == {0, 2, WLargest(kind)}
NextDeep ==
    \/ WNew(DeepLen, [kind \in WKinds |-> DeepInputs(kind)])
    \/ WGet
    \/ WPush(DeepLen, [kind \in WKinds |-> DeepInputs(kind)])
    \/ WPop
    \/ WUpdate([kind \in WKinds |-> DeepInputs(kind)])
    \/ WSample
SpecDeep == InitTree /\ [][NextDeep]_vars

\* ------------------------------------------------------------ the error
\* One Error value is followed: it is constructed, possibly replaced by a
\* newly constructed one, and asked about.
ERecord(op, b, str) == [op |-> op, b |-> b, s |-> str]
HasError == err.kind \in ErrorKinds
ENew ==
    /\ \E kind \in ErrorKinds, msg \in ErrorMsgs :
           /\ err' = ErrorNew(kind, msg)
           /\ elast' = ERecord("new", FALSE, msg)
    /\ UNCHANGED <<rvars, tvars, wvars, fvars, bvars, walk>>
ENewWithCause ==
    /\ \E kind \in ErrorKinds, msg \in ErrorMsgs, cause \in ErrorCauses,
          feature \in Features :
           /\ err' = ErrorNewWithCause(kind, msg, cause, feature)
           /\ elast' = ERecord("new_with_cause", FALSE, cause)
    /\ UNCHANGED <<rvars, tvars, wvars, fvars, bvars, walk>>
\* err.kind.should_retry()
EShouldRetry ==
    /\ HasError
    /\ elast' = ERecord("should_retry", ShouldRetry(err.kind), "none")
    /\ UNCHANGED <<err, rvars, tvars, wvars, fvars, bvars, walk>>
\* err.kind.should_wait()
EShouldWait ==
    /\ HasError
    /\ elast' = ERecord("should_wait", ShouldWait(err.kind), "none")
    /\ UNCHANGED <<err, rvars, tvars, wvars, fvars, bvars, walk>>
\* err.kind.description()
EDescription ==
    /\ HasError
    /\ elast' = ERecord("description", FALSE, Description(err.kind))
    /\ UNCHANGED <<err, rvars, tvars, wvars, fvars, bvars, walk>>
\* err.msg()
EMsg ==
    /\ HasError
    /\ elast' = ERecord("msg", FALSE, err.msg)
    /\ UNCHANGED <<err, rvars, tvars, wvars, fvars, bvars, walk>>
\* stdError::cause(&err)
ECause ==
    /\ HasError
    /\ elast' = ERecord("cause", err.cause # "None", err.cause)
    /\ UNCHANGED <<err, rvars, tvars, wvars, fvars, bvars, walk>>

InitError == ErrorAtRest /\ TreeAtRest /\ NoThreads /\ ReseedingAtRest /\ ForwardAtRest /\ BernAtRest /\ WalkAtRest
NextError ==
    \/ ENew
    \/ ENewWithCause
    \/ EShouldRetry
    \/ EShouldWait
    \/ EDescription
    \/ EMsg
    \/ ECause
SpecError == InitError /\ [][NextError]_vars

\* ------------------------------------------------------------ the wrappers
\* The same call is made on `direct` and, through a wrapper, on `wrapped`;
\* the source behind both generators answers both calls alike.
FCall ==
    /\ \E method \in RngMethods, layers \in WrapLayers \ {<<>>}, n \in FwdLens,
          env \in SourceOutcomes :
           LET d == GenCall(method, direct, n, env)
               w == Call(layers, method, wrapped, n, env)
           IN  /\ (method \in {"next_u32", "next_u64"} => n = 0)
               /\ direct' = d.g
               /\ wrapped' = w.g
               /\ flast' = [method |-> method, layers |-> layers, n |-> n,
                            env |-> env, pre |-> direct, d |-> d, w |-> w]
    /\ UNCHANGED <<rvars, tvars, wvars, evars, bvars, walk>>
InitForward == ForwardAtRest /\ ErrorAtRest /\ TreeAtRest /\ NoThreads /\ ReseedingAtRest /\ BernAtRest /\ WalkAtRest
SpecForward == InitForward /\ [][FCall]_vars

\* ------------------------------------------------------------ the distribution
\* A Bernoulli is constructed from a ratio and sampled; a panic of the
\* constructor leaves no value.
BFromRatio ==
    /\ \E numerator \in RatioInputs, denominator \in RatioInputs :
           LET r == FromRatio(numerator, denominator)
           IN  /\ bern' = [some |-> r.res = "Ok", p_int |-> r.p_int]
               /\ blast' = [op |-> "from_ratio", numerator |-> numerator,
                            denominator |-> denominator, ret |-> r.res,
                            v |-> 0, b |-> FALSE]
    /\ UNCHANGED <<rvars, tvars, wvars, evars, fvars, walk>>
BSample ==
    /\ bern.some
    /\ \E v \in 0 .. ALWAYS_TRUE :
           blast' = [blast EXCEPT !.op = "sample", !.v = v,
                                  !.b = BernSample(bern.p_int, v)]
    /\ UNCHANGED <<bern, rvars, tvars, wvars, evars, fvars, walk>>
InitBern ==
    WalkAtRest /\ BernAtRest /\ ForwardAtRest /\ ErrorAtRest /\ TreeAtRest /\ NoThreads /\ ReseedingAtRest
NextBern ==
    \/ BFromRatio
    \/ BSample
SpecBern == InitBern /\ [][NextBern]_vars

\* ------------------------------------------------------------ the loops
\* The loops of sample, push, pop and update, one iteration per step.  An
\* operation that returns before its loop is not followed here.
MaxIters == 6
Running == {"sample", "push", "pop", "update"}
WalkIdle(done, index, t, iters, goal) ==
    [op |-> "idle", index |-> index, t |-> t, w |-> 0, iters |-> iters,
     done |-> done, goal |-> goal]
LNew ==
    /\ walk.op = "none"
    /\ \E kind \in WKinds :
        \E weights \in WeightLists(kind, DeepLen, [k \in WKinds |-> DeepInputs(k)]) :
           LET r == TreeNew(kind, weights)
           IN  /\ r.res = "Ok"
               /\ Bounded(kind, r.st)
               /\ wtree' = [kind |-> kind, st |-> r.st, some |-> TRUE]
               /\ walk' = WalkIdle("new", 0, 0, 0, r.st)
    /\ UNCHANGED <<wlast, rvars, tvars, evars, fvars, bvars>>
\* sample up to `let mut index = 0`
LSampleBegin ==
    /\ walk.op = "idle"
    /\ Len(wtree.st) > 0
    /\ \E draw \in Draws(wtree.kind, wtree.st[1]) :
           walk' = [op |-> "sample", index |-> 0, t |-> draw, w |-> 0, iters |-> 0,
                    done |-> "none", goal |-> wtree.st]
    /\ UNCHANGED <<wvars, rvars, tvars, evars, fvars, bvars>>
\* one iteration of `loop { .. }`, and the assertions behind it
LSampleIter ==
    /\ walk.op = "sample"
    /\ walk.iters < MaxIters
    /\ \E r \in {SampleIter(wtree.kind, wtree.st, walk.index, walk.t, build) :
                    build \in Builds} :
           walk' = IF r.next = "continue"
                   THEN [walk EXCEPT !.index = r.index, !.t = r.t, !.iters = @ + 1]
                   ELSE WalkIdle(IF r.next = "break" /\ r.t >= 0
                                        /\ r.t < Subtotal(wtree.st, r.index)
                                 THEN "sample" ELSE "panic",
                                 r.index, r.t, walk.iters + 1, wtree.st)
    /\ UNCHANGED <<wvars, rvars, tvars, evars, fvars, bvars>>
\* push up to `self.subtotals.push(weight.clone())`
LPushBegin ==
    /\ walk.op = "idle"
    /\ Len(wtree.st) < DeepLen
    /\ \E weight \in DeepInputs(wtree.kind) :
           LET goal == TreePush(wtree.kind, wtree.st, weight)
           IN  /\ goal.res = "Ok"
               /\ Bounded(wtree.kind, goal.st)
               /\ wtree' = [wtree EXCEPT !.st = Append(wtree.st, weight)]
               /\ walk' = [op |-> "push", index |-> Len(wtree.st), t |-> 0,
                           w |-> weight, iters |-> 0, done |-> "none",
                           goal |-> goal.st]
    /\ UNCHANGED <<wlast, rvars, tvars, evars, fvars, bvars>>
\* pop up to `let mut index = self.len()`
LPopBegin ==
    /\ walk.op = "idle"
    /\ Len(wtree.st) > 0
    /\ \E goal \in {TreePop(wtree.kind, wtree.st, build) : build \in Builds} :
           /\ goal.res = "Some"
           /\ Bounded(wtree.kind, goal.st)
           /\ wtree' = [wtree EXCEPT !.st = SubSeq(wtree.st, 1, Len(wtree.st) - 1)]
           /\ walk' = [op |-> "pop", index |-> Len(wtree.st) - 1, t |-> 0,
                       w |-> wtree.st[Len(wtree.st)], iters |-> 0, done |-> "none",
                       goal |-> goal.st]
    /\ UNCHANGED <<wlast, rvars, tvars, evars, fvars, bvars>>
\* update up to the addition on subtotals[index]
LUpdateBegin ==
    /\ walk.op = "idle"
    /\ \E index \in 0 .. (Len(wtree.st) - 1), weight \in DeepInputs(wtree.kind) :
        \E build \in Builds :
           LET goal == TreeUpdate(wtree.kind, wtree.st, index, weight, build)
               g == TreeGet(wtree.kind, wtree.st, index, build)
               d == SubAssign(wtree.kind, weight, g.v, build)
               r == CheckedAdd(wtree.kind, wtree.st[index + 1], d.v)
           IN  /\ goal.res = "Ok"
               /\ d.v # 0
               /\ Bounded(wtree.kind, goal.st)
               /\ wtree' = [wtree EXCEPT !.st[index + 1] = r.v]
               /\ walk' = [op |-> "update", index |-> index, t |-> 0, w |-> d.v,
                           iters |-> 0, done |-> "none", goal |-> goal.st]
    /\ UNCHANGED <<wlast, rvars, tvars, evars, fvars, bvars>>
\* one iteration of `while index != 0 { index = (index - 1) / 2; .. }` in
\* push and update
LAddIter ==
    /\ walk.op \in {"push", "update"}
    /\ walk.index # 0
    /\ walk.iters < MaxIters
    /\ LET index == (walk.index - 1) \div 2
           r == CheckedAdd(wtree.kind, wtree.st[index + 1], walk.w)
       IN  IF r.ok
           THEN /\ wtree' = [wtree EXCEPT !.st[index + 1] = r.v]
                /\ walk' = [walk EXCEPT !.index = index, !.iters = @ + 1]
           ELSE /\ wtree' = wtree
                /\ walk' = WalkIdle("panic", walk.index, 0, walk.iters + 1, walk.goal)
    /\ UNCHANGED <<wlast, rvars, tvars, evars, fvars, bvars>>
\* one iteration of the same loop in pop
LSubIter ==
    /\ walk.op = "pop"
    /\ walk.index # 0
    /\ walk.iters < MaxIters
    /\ \E build \in Builds :
       LET index == (walk.index - 1) \div 2
           r == SubAssign(wtree.kind, wtree.st[index + 1], walk.w, build)
       IN  IF r.ok
           THEN /\ wtree' = [wtree EXCEPT !.st[index + 1] = r.v]
                /\ walk' = [walk EXCEPT !.index = index, !.iters = @ + 1]
           ELSE /\ wtree' = wtree
                /\ walk' = WalkIdle("panic", walk.index, 0, walk.iters + 1, walk.goal)
    /\ UNCHANGED <<wlast, rvars, tvars, evars, fvars, bvars>>
\* the loop condition `index != 0` fails and the operation returns
LReturn ==
    /\ walk.op \in {"push", "pop", "update"}
    /\ walk.index = 0
    /\ walk' = WalkIdle(walk.op, 0, 0, walk.iters, walk.goal)
    /\ UNCHANGED <<wvars, rvars, tvars, evars, fvars, bvars>>
InitWalk ==
    WalkAtRest /\ BernAtRest /\ ForwardAtRest /\ ErrorAtRest /\ TreeAtRest /\ NoThreads
        /\ ReseedingAtRest
LIter == LSampleIter \/ LAddIter \/ LSubIter \/ LReturn
NextWalk ==
    \/ LNew
    \/ LSampleBegin
    \/ LSampleIter
    \/ LPushBegin
    \/ LPopBegin
    \/ LUpdateBegin
    \/ LAddIter
    \/ LSubIter
    \/ LReturn
\* a loop that has been entered keeps running: the thread is not suspended
\* for ever
SpecWalk == InitWalk /\ [][NextWalk]_vars /\ WF_vars(LIter)

\* ------------------------------------------------------------ reading `last`
GenOps == {"next_u32", "next_u64", "fill_bytes", "try_fill_bytes"}
IsGen == last.op \in GenOps

\* the core as the i-th call of generate of the last operation left it
After(i) ==
    IF i < Len(last.events) THEN last.events[i + 1].pre ELSE rng.core

\* the i-th call of generate found the budget spent
Spent(i) == last.events[i].pre.bytes_until_reseed <= 0

\* the last operation returned normally with all the output it was asked for
Delivered ==
    /\ last.ret \in {"value", "unit", "Ok"}
    /\ last.op = "next_u32" => Len(last.out) = 1
    /\ last.op = "next_u64" => Len(last.out) = 2
    /\ last.op \in {"fill_bytes", "try_fill_bytes"} => last.filled = last.n

\* some word of the output of the last operation comes from this block
InOutput(block) ==
    \E j \in DOMAIN last.out :
        last.out[j].seed = block.seed /\ last.out[j].ctr = block.ctr

\* ------------------------------------------------------------ C1
\* C1: when a call of generate finds the budget spent and the reseed source
\* fails, the failure is not reported: the operation returns normally with
\* all the output asked for, and the block comes from the inner generator
\* that was there, which is advanced, not replaced.
Thm_C1 ==
    IsGen =>
        \A i \in DOMAIN last.events :
            LET e == last.events[i]
            IN  (Spent(i) /\ e.o # "ok") =>
                    /\ e.reseed = "Err"
                    /\ e.block = [seed |-> e.pre.inner.seed, ctr |-> e.pre.inner.ctr]
                    /\ After(i).inner = [e.pre.inner EXCEPT !.ctr = @ + 1]
                    /\ InOutput(e.block)
                    /\ Delivered

Wit_C1 ==
    /\ last.op = "try_fill_bytes"
    /\ last.ret = "Ok"
    /\ last.n > 0
    /\ \E i \in DOMAIN last.events : Spent(i) /\ last.events[i].o = "err"

Pristine(e) == ~e.ob.cloned /\ ~e.ob.manual

Thm_C4 ==
    IsGen =>
        \A i \in DOMAIN last.events :
            LET e == last.events[i]
            IN  (Spent(i) /\ e.o = "ok") =>
                    /\ e.reseed = "Ok"
                    /\ e.block = [seed |-> e.pre.reseeder.v, ctr |-> 0]
                    /\ After(i).inner = [seed |-> e.pre.reseeder.v, ctr |-> 1]
                    /\ After(i).bytes_until_reseed = e.pre.threshold - NumBytes

Wit_C4 ==
    /\ IsGen
    /\ \E i \in DOMAIN last.events :
           LET e == last.events[i]
           IN  /\ Spent(i) /\ e.o = "ok" /\ ~e.ob.cloned
               /\ e.pre.inner.seed # e.pre.reseeder.v
               /\ e.pre.threshold > NumBytes

\* ------------------------------------------------------------ C5
\* C5: reseed() discards the buffered output, consults the source whatever
\* the budget, returns Err exactly when the source fails, and on Ok the inner
\* generator is one freshly seeded from the source and the budget equals the
\* threshold; on Err the inner generator and the budget are as before.
Thm_C5 ==
    last.op = "reseed" =>
        LET e == last.events[1]
        IN  /\ rng.index = BlockWords
            /\ last.ret = "Err" <=> e.o # "ok"
            /\ last.ret = "Ok" <=> e.o = "ok"
            /\ last.ret = "Ok" =>
                   /\ rng.core.inner = FromSeed(e.pre.reseeder.v)
                   /\ rng.core.bytes_until_reseed = rng.core.threshold
            /\ last.ret = "Err" =>
                   /\ rng.core.inner = e.pre.inner
                   /\ rng.core.bytes_until_reseed = e.pre.bytes_until_reseed

Wit_C5 ==
    /\ last.op = "reseed"
    /\ last.ret = "Ok"
    /\ last.index0 < BlockWords
    /\ last.events[1].pre.bytes_until_reseed > 0
    /\ last.events[1].pre.bytes_until_reseed < rng.core.threshold

\* ------------------------------------------------------------ C6
\* C6: the constructor stores the threshold as a signed value in 1 ..
\* i64::MAX: 0 is stored as i64::MAX, a value in 1 ..= i64::MAX as itself, a
\* larger one as i64::MAX; and the budget starts equal to the stored value.
Thm_C6 ==
    last.op = "new" =>
        LET t == last.n
            stored == rng.core.threshold
        IN  /\ stored \in 1 .. I64_MAX
            /\ t = 0 => stored = I64_MAX
            /\ (1 <= t /\ t <= I64_MAX) => stored = t
            /\ t > I64_MAX => stored = I64_MAX
            /\ rng.core.bytes_until_reseed = stored

Wit_C6 ==
    /\ last.op = "new"
    /\ last.n > I64_MAX
    /\ last.n < U64_MAX
    /\ rng.core.threshold = I64_MAX
    /\ rng.core.bytes_until_reseed = I64_MAX

Orig_C9 ==
    IsGen =>
        \A i \in DOMAIN last.events :
            LET e == last.events[i]
            IN  e.ob.cloned => (e.ob.reseeded \/ e.reseed = "Ok")

\* C9: a clone generates a block from the inner generator it copied only in
\* or after a call of generate whose reseed attempt failed; once a reseed of
\* the clone has succeeded, none of its blocks comes from the copied state.
Thm_C9 ==
    IsGen =>
        \A i \in DOMAIN last.events :
            LET e == last.events[i]
            IN  e.ob.cloned =>
                    \/ e.ob.reseeded \/ e.reseed = "Ok"
                    \/ e.ob.failed \/ e.reseed = "Err"

Wit_C9 ==
    /\ IsGen
    /\ \E i \in DOMAIN last.events :
           LET e == last.events[i]
           IN  /\ e.ob.cloned /\ ~e.ob.reseeded
               /\ e.ob.failed
               /\ e.reseed = "None"

\* ------------------------------------------------------------ reading `tlast`
TGenOps == {"next_u32", "next_u64", "fill_bytes"}
\* the state behind the handle of the last step, as the step left it
TPost == heap[tlast.h.cell].s

\* ------------------------------------------------------------ C11
\* C11: a generation call of ThreadRng asks the OS entropy source for a new
\* seed before producing output exactly when bytes_until_reseed is <= 0 at
\* the start of the call.
Orig_C11 ==
    tlast.op \in TGenOps =>
        (tlast.asked <=> tlast.pre.bytes_until_reseed <= 0)

\* a generation call that started with a budget of exactly 0
Wit_C11 ==
    /\ tlast.op \in TGenOps
    /\ tlast.n > 0
    /\ tlast.pre.bytes_until_reseed = 0
    /\ ~tlast.asked
    /\ tlast.out.seed = tlast.pre.rng.seed

\* ------------------------------------------------------------ C12
\* C12: when the OS entropy source fails in the automatic reseed of a
\* generation call, the call returns normally, its output is the next output
\* of the inner generator that was there, and that generator stays in place.
Thm_C12 ==
    (tlast.op \in TGenOps /\ tlast.asked /\ tlast.o = "err") =>
        /\ tlast.ret \in {"value", "unit"}
        /\ tlast.out = [seed |-> tlast.pre.rng.seed, pos |-> tlast.pre.rng.pos,
                        n |-> tlast.n]
        /\ TPost.rng.seed = tlast.pre.rng.seed
        /\ TPost.rng.pos = tlast.pre.rng.pos + (IF tlast.n > 0 THEN 1 ELSE 0)

Wit_C12 ==
    /\ tlast.op \in TGenOps
    /\ tlast.asked
    /\ tlast.o = "err"
    /\ tlast.n > 0
    /\ tlast.pre.rng.pos > 0

\* ------------------------------------------------------------ C13
\* C13: ThreadRng::reseed() asks the OS entropy source whatever budget is
\* left and returns Err exactly when the source fails; on Ok the inner
\* generator is one freshly seeded by that call and bytes_until_reseed is
\* RESEED_THRESHOLD.
Thm_C13 ==
    tlast.op = "reseed" =>
        /\ tlast.asked
        /\ tlast.ret = "Err" <=> tlast.o = "err"
        /\ tlast.ret = "Ok" <=> tlast.o = "ok"
        /\ tlast.ret = "Ok" =>
               /\ TPost.rng = [seed |-> os, pos |-> 0]
               /\ TPost.bytes_until_reseed = RESEED_THRESHOLD
        /\ tlast.ret = "Err" => TPost.rng = tlast.pre.rng

Wit_C13 ==
    /\ tlast.op = "reseed"
    /\ tlast.ret = "Ok"
    /\ tlast.pre.bytes_until_reseed > 0
    /\ tlast.pre.bytes_until_reseed < RESEED_THRESHOLD
    /\ tlast.pre.rng.pos > 0

\* ------------------------------------------------------------ reading threads
LiveHandles == {hv \in HandleVals : Live(hv)}
\* the addresses at which a state was created for thread t
CellsOf(t) == {a \in Addrs : heap[a].owner = t}
\* thread t is inside a method and holds a mutable reference into address a
Borrows(t, a) == pc[t] # Idle /\ pc[t].ref = a
\* a step in which thread t returns from a method of ThreadRng
Returns(t) == pc[t] # Idle /\ pc'[t] = Idle

\* ------------------------------------------------------------ C14
\* the handles of a program: same state exactly when same thread
SharedByThread ==
    /\ \A h1, h2 \in LiveHandles : h1.cell = h2.cell <=> h1.thread = h2.thread
    /\ \A hv \in LiveHandles : heap[hv.cell].owner = hv.thread
    /\ tlast.op \in {"next_u64", "reseed"} =>
           \A hv \in LiveHandles :
               hv.thread = tlast.t => heap[hv.cell].s = TPost
    /\ tlast.op = "next_u64" => TPost # tlast.pre

\* a method of one thread leaves the state of every other thread as it was
OthersUntouched ==
    \A t \in Threads :
        Returns(t) =>
            \A a \in Addrs : heap[a].owner # t => heap'[a] = heap[a]

\* C14: two ThreadRng handles reference the same state exactly when they are
\* on the same thread; generation or reseed through one handle changes what
\* every handle of that thread sees and nothing that belongs to another
\* thread.
Thm_C14 == []SharedByThread /\ [][OthersUntouched]_vars

Wit_C14 ==
    /\ tlast.op = "next_u64"
    /\ handles[tlast.h] = 2
    /\ \E a \in Addrs :
           /\ heap[a].st = "live"
           /\ heap[a].owner # tlast.t
           /\ heap[a].s.rng.pos = 0
           /\ TPost.rng.pos = 1

\* ------------------------------------------------------------ C15
\* C15: the state of a thread is created by the first acquisition of a handle
\* on it and at most once; when the entropy source fails in that
\* initialisation the acquisition panics, no state is created and no handle
\* is returned, and every handle there is has a generator seeded by the
\* entropy source behind it.
Thm_C15 ==
    /\ \A t \in Threads :
           /\ Cardinality(CellsOf(t)) <= 1
           /\ key[t].st = "uninit" => CellsOf(t) = {}
           /\ key[t].st = "alive" => CellsOf(t) = {key[t].cell}
    /\ \A hv \in LiveHandles :
           /\ heap[hv.cell].st = "live"
           /\ heap[hv.cell].s.rng.seed \in 1 .. os
    /\ (tlast.op = "new" /\ tlast.asked /\ tlast.o = "err") =>
           /\ tlast.ret = "panic"
           /\ key[tlast.t].st = "uninit"
           /\ tlast.h = NoHandle
    /\ (tlast.op = "new" /\ tlast.ret = "handle") => Live(tlast.h)

Wit_C15 ==
    /\ tlast.op = "new"
    /\ tlast.asked
    /\ tlast.o = "err"
    /\ tlast.ret = "panic"
    /\ \E t \in Threads : t # tlast.t /\ key[t].st = "alive"

\* ------------------------------------------------------------ C16
\* C16: the state of a thread is freed only when the thread-local slot has
\* been destroyed and every handle has been dropped, whichever comes first;
\* until then it is live, so a handle used after the slot was destroyed
\* still reaches live state.
Thm_C16 ==
    /\ \A a \in Addrs :
           LET held == key[heap[a].owner].st = "alive" /\ key[heap[a].owner].cell = a
           IN  /\ heap[a].st = "freed" => (HandlesOn(a) = 0 /\ ~held)
               /\ heap[a].st = "live" =>
                      /\ HandlesOn(a) > 0 \/ held
                      /\ heap[a].strong = HandlesOn(a) + (IF held THEN 1 ELSE 0)
    /\ \A hv \in LiveHandles : heap[hv.cell].st = "live"
    /\ \A t \in Threads : pc[t] # Idle => heap[pc[t].ref].st = "live"

Wit_C16 ==
    /\ tlast.op = "next_u64"
    /\ tlast.ret = "value"
    /\ key[tlast.t].st = "destroyed"
    /\ heap[tlast.h.cell].st = "live"
    /\ TPost.rng.pos = tlast.pre.rng.pos + 1

\* ------------------------------------------------------------ C17
\* C17: with every thread inside at most one method of ThreadRng at a time
\* and handles used only by their own thread, at most one mutable reference
\* into a thread's InnerState is live at any instant, and a thread outside
\* the methods holds none.
Thm_C17 ==
    /\ \A a \in Addrs : Cardinality({t \in Threads : Borrows(t, a)}) <= 1
    /\ \A t \in Threads :
           pc[t] # Idle => (heap[pc[t].ref].owner = t /\ pc[t].ref = pc[t].h.cell)
    /\ \A t \in Threads : pc[t] = Idle => \A a \in Addrs : ~Borrows(t, a)

Wit_C17 ==
    /\ \A t \in Threads : pc[t] # Idle
    /\ \E t1, t2 \in Threads : pc[t1].ref # pc[t2].ref

\* ------------------------------------------------------------ C18
\* C18: the Debug output of a ThreadRng is "ThreadRng { .. }" whatever the
\* state behind it: handles whose generator or budget differ print the same.
Thm_C18 ==
    /\ \A hv \in LiveHandles : DebugFmt(hv, heap) = "ThreadRng { .. }"
    /\ tlast.op = "debug" => tlast.ret = "ThreadRng { .. }"

Wit_C18 ==
    /\ tlast.op = "debug"
    /\ \E h1, h2 \in LiveHandles :
           /\ heap[h1.cell].s.rng # heap[h2.cell].s.rng
           /\ heap[h1.cell].s.bytes_until_reseed # heap[h2.cell].s.bytes_until_reseed
\* ------------------------------------------------------------ reading `wlast`
RECURSIVE SeqSum(_)
SeqSum(ws) == IF ws = <<>> THEN 0 ELSE ws[1] + SeqSum(Tail(ws))
NonNegative(ws) == \A i \in DOMAIN ws : ws[i] >= 0
\* the deepest level a tree of n elements has (the root is level 1)
Levels(n) == IF n = 0 THEN 0 ELSE IF n = 1 THEN 1 ELSE IF n <= 3 THEN 2 ELSE 3

\* the sum of the weights does not overflow the weight type
Fits(kind, ws) == kind \in IntKinds => SeqSum(ws) <= WMax(kind)
\* new(ws) succeeded with len() = n and get(i) = ws[i] for every i < n
NewKeepsWeights ==
    /\ wlast.ret = "Ok"
    /\ wtree.some
    /\ TreeLen(wtree.st) = Len(wlast.ws)
    /\ \A i \in 0 .. Len(wlast.ws) - 1, build \in Builds :
           TreeGet(wtree.kind, wtree.st, i, build) = [res |-> "Ok", v |-> wlast.ws[i + 1]]
\* pop() after the push returned the pushed weight and restored the subtotals
PopUndoesPush ==
    /\ wlast.ret = "Some"
    /\ wlast.v = wlast.push.w
    /\ wtree.st = wlast.push.st

\* ------------------------------------------------------------ C19
\* C19 as stated: for every sequence w[0..n) of nonnegative weights whose sum
\* does not overflow the weight type, new(w) succeeds with len() = n and
\* get(i) = w[i] for every i < n.  Fails for floating point weights, where a
\* subtotal is rounded and the difference get computes is no longer w[i].
Orig_C19 ==
    (wlast.op = "new" /\ NonNegative(wlast.ws) /\ Fits(wtree.kind, wlast.ws))
        => NewKeepsWeights
\* C19: for an integer weight type, signed or unsigned, and every sequence
\* w[0..n) of nonnegative weights whose sum fits the type, new(w) succeeds, and
\* the tree it returns has len() = n and get(i) = w[i] for every i < n, in a
\* debug and in a release build.
Thm_C19 ==
    (/\ wlast.op = "new"
     /\ wtree.kind \in IntKinds
     /\ NonNegative(wlast.ws)
     /\ Fits(wtree.kind, wlast.ws))
        => NewKeepsWeights
\* new built a tree of three levels whose integer weights add up to the
\* largest value of the type, with weight on the root and on the deepest leaf
Wit_C19 ==
    /\ wlast.op = "new"
    /\ wlast.ret = "Ok"
    /\ wtree.kind \in IntKinds
    /\ Len(wlast.ws) = MaxLen
    /\ Levels(Len(wlast.ws)) = 3
    /\ NonNegative(wlast.ws)
    /\ SeqSum(wlast.ws) = WMax(wtree.kind)
    /\ wlast.ws[1] > 0
    /\ wlast.ws[MaxLen] > 0

\* ------------------------------------------------------------ C20
\* C20 as stated: when push(w) returned Ok on a tree t, the pop() that follows
\* next returns Some(w) and leaves the subtotals exactly as they were in t.
\* Fails for floating point weights: the ancestors' subtotals are rounded
\* when w is added, and subtracting w does not give the old values back.
Orig_C20 == (wlast.op = "pop" /\ wlast.push.ok) => PopUndoesPush
\* C20: for an integer weight type, when push(w) returned Ok on a tree t, the
\* pop() that follows next returns Some(w) and leaves the subtotals exactly as
\* they were in t.
Thm_C20 ==
    (wlast.op = "pop" /\ wlast.push.ok /\ wtree.kind \in IntKinds) => PopUndoesPush
\* push of a positive weight onto an integer tree of two levels made a third
\* level, and pop took it back
Wit_C20 ==
    /\ wlast.op = "pop"
    /\ wlast.push.ok
    /\ wtree.kind \in IntKinds
    /\ wlast.push.w > 0
    /\ Levels(Len(wlast.push.st)) = 2
    /\ Levels(Len(wlast.pre)) = 3
    /\ wlast.push.st[1] > 0

\* ------------------------------------------------------------ C21
\* the own weight of index before the last operation (debug and release
\* agree wherever the tree is well formed)
OldWeight(index) == TreeGet(wtree.kind, wlast.pre, index, "release").v
\* C21: for a signed or unsigned integer weight type, whenever update(i, w)
\* returned Ok on a reachable tree, get(i) afterwards returns w, for an
\* increase and for a decrease, in a debug and in a release build.
Thm_C21 ==
    (wlast.op = "update" /\ wlast.ret = "Ok" /\ wtree.kind \in IntKinds)
        => /\ wlast.i < TreeLen(wtree.st)
           /\ \A build \in Builds :
                  TreeGet(wtree.kind, wtree.st, wlast.i, build) =
                      [res |-> "Ok", v |-> wlast.w]
\* update lowered the weight of an inner node of a three-level tree that has
\* weight below it
Wit_C21 ==
    /\ wlast.op = "update"
    /\ wlast.ret = "Ok"
    /\ wtree.kind \in IntKinds
    /\ Levels(Len(wlast.pre)) = 3
    /\ wlast.i = 1
    /\ wlast.w > 0
    /\ wlast.w < OldWeight(1)
    /\ Subtotal(wtree.st, 3) > 0

\* ------------------------------------------------------------ C22
WErrors == {"InvalidWeight", "Overflow"}
\* C22: a push or update that returned InvalidWeight or Overflow left the
\* subtotals exactly as they were; a new that failed produced no tree; and an
\* operation that panicked did so before it changed anything, so no ancestor
\* walk is ever left half applied.
Thm_C22 ==
    /\ (wlast.op \in {"push", "update"} /\ wlast.ret \in WErrors)
           => wtree.st = wlast.pre
    /\ (wlast.op = "new" /\ wlast.ret # "Ok")
           => (~wtree.some /\ wtree.st = <<>> /\ wlast.ret \in WErrors)
    /\ (wlast.op \in {"push", "pop", "update"} /\ wlast.ret = "panic")
           => wtree.st = wlast.pre
\* update of a leaf on the third level failed with Overflow although the leaf
\* and its parent could have taken the difference
Wit_C22 ==
    /\ wlast.op = "update"
    /\ wlast.ret = "Overflow"
    /\ wtree.kind = "signed"
    /\ Len(wlast.pre) = 4
    /\ wlast.i = 3
    /\ wlast.w > OldWeight(3)
    /\ wlast.pre[2] + (wlast.w - OldWeight(3)) <= WMax(wtree.kind)

\* ------------------------------------------------------------ C23
\* the grand total before the last operation
OldTotal == Subtotal(wlast.pre, 0)
\* C23: for an integer weight type and nonnegative weights, new(w) returns
\* Overflow exactly when the sum of the weights exceeds the largest value of
\* the type, and push(w) and update(i, w) return Overflow exactly when the
\* grand total after the change would exceed it; in particular a total equal
\* to the largest value is accepted and a decrease never reports Overflow.
\* Fails: on an unsigned type update to a smaller weight returns Overflow in
\* a release build.
Orig_C23 ==
    wtree.kind \in IntKinds =>
        /\ (wlast.op = "new" /\ NonNegative(wlast.ws))
               => (wlast.ret = "Overflow" <=> SeqSum(wlast.ws) > WMax(wtree.kind))
        /\ (wlast.op = "push" /\ wlast.w >= 0)
               => (wlast.ret = "Overflow" <=> OldTotal + wlast.w > WMax(wtree.kind))
        /\ (wlast.op = "update" /\ wlast.w >= 0 /\ wlast.i < Len(wlast.pre))
               => (wlast.ret = "Overflow"
                       <=> OldTotal - OldWeight(wlast.i) + wlast.w > WMax(wtree.kind))
\* update of an unsigned tree to a smaller, nonnegative weight returned
\* Overflow and left the old weight in place
Wit_C23 ==
    /\ wlast.op = "update"
    /\ wtree.kind = "unsigned"
    /\ wlast.i < Len(wlast.pre)
    /\ wlast.w >= 0
    /\ wlast.w < OldWeight(wlast.i)
    /\ wlast.ret = "Overflow"
    /\ wtree.st = wlast.pre
\* what remains of C23: the equivalences hold for new and push on both integer
\* types, and for update on the signed type and for increases on the unsigned
\* one; an unsigned decrease ends in Overflow (release) or a panic (debug).
Rest_C23 ==
    wtree.kind \in IntKinds =>
        /\ (wlast.op = "new" /\ NonNegative(wlast.ws))
               => (wlast.ret = "Overflow" <=> SeqSum(wlast.ws) > WMax(wtree.kind))
        /\ (wlast.op = "push" /\ wlast.w >= 0)
               => (wlast.ret = "Overflow" <=> OldTotal + wlast.w > WMax(wtree.kind))
        /\ (/\ wlast.op = "update" /\ wlast.w >= 0 /\ wlast.i < Len(wlast.pre)
            /\ (wtree.kind = "signed" \/ wlast.w >= OldWeight(wlast.i)))
               => (wlast.ret = "Overflow"
                       <=> OldTotal - OldWeight(wlast.i) + wlast.w > WMax(wtree.kind))
        /\ (/\ wlast.op = "update" /\ wlast.w >= 0 /\ wlast.i < Len(wlast.pre)
            /\ wtree.kind = "unsigned" /\ wlast.w < OldWeight(wlast.i))
               => wlast.ret \in {"Overflow", "panic"}

\* ------------------------------------------------------------ C24
\* the sum of the nonnegative entries of ws
RECURSIVE PosSum(_)
PosSum(ws) ==
    IF ws = <<>> THEN 0
    ELSE (IF ws[1] > 0 THEN ws[1] ELSE 0) + PosSum(Tail(ws))
\* C24: new returns InvalidWeight when any element of the sequence is
\* negative, push and update return InvalidWeight when their weight is
\* negative, whatever else is wrong with the call (other weights that would
\* overflow, an index out of range); the tree is not touched.
Thm_C24 ==
    /\ (wlast.op = "new" /\ ~NonNegative(wlast.ws))
           => (wlast.ret = "InvalidWeight" /\ ~wtree.some)
    /\ (wlast.op \in {"push", "update"} /\ wlast.w < 0)
           => (wlast.ret = "InvalidWeight" /\ wtree.st = wlast.pre)
\* new was given a negative element behind weights that overflow on their own
Wit_C24 ==
    /\ wlast.op = "new"
    /\ wlast.ret = "InvalidWeight"
    /\ wtree.kind = "signed"
    /\ wlast.ws[1] >= 0
    /\ wlast.ws[Len(wlast.ws)] < 0
    /\ PosSum(wlast.ws) > WMax("signed")

EndsInOwnWeight ==
    /\ wlast.ret = "Ok"
    /\ wlast.i < TreeLen(wtree.st)
    /\ wlast.v >= 0
    /\ \A build \in Builds :
           LET g == TreeGet(wtree.kind, wtree.st, wlast.i, build)
           IN  g.res = "Ok" /\ wlast.v < g.v

RECURSIVE Base(_, _)
Base(st, index) ==
    IF index = 0 THEN 0
    ELSE LET parent == (index - 1) \div 2
         IN  IF index = 2 * parent + 1 THEN Base(st, parent)
             ELSE Base(st, parent) + Subtotal(st, 2 * parent + 1)
\* the first draw of index itself: behind its two subtrees
OwnStart(st, index) ==
    Base(st, index) + Subtotal(st, 2 * index + 1) + Subtotal(st, 2 * index + 2)
\* what sample can return for a draw, over the builds
SampleOutcomes(draw) ==
    {TreeSample(wtree.kind, wtree.st, draw, build) : build \in Builds}
\* C27: for integer weights the index sample returns is a function of the
\* tree and the draw, the same in every build, and the draws are divided
\* left-first: below a node the draws of its left subtree come first, then
\* those of its right subtree, then get(i) draws of the node itself.  So of
\* the draws in [0, total) exactly get(i) give index i.
Thm_C27 ==
    (wlast.op = "sample" /\ CanSample(wtree.st) /\ wtree.kind \in IntKinds) =>
        LET st == wtree.st
            own(i) == TreeGet(wtree.kind, st, i, "debug").v
            all == Draws(wtree.kind, st[1])
        IN  /\ wlast.ret = "Ok"
            /\ OwnStart(st, wlast.i) <= wlast.w
            /\ wlast.w < OwnStart(st, wlast.i) + own(wlast.i)
            /\ wlast.v = wlast.w - OwnStart(st, wlast.i)
            /\ \A d \in all : Cardinality(SampleOutcomes(d)) = 1
            /\ \A i \in 0 .. Len(st) - 1 :
                   Cardinality({d \in all : \E r \in SampleOutcomes(d) : r.index = i}) = own(i)
\* a draw went to the right child of the root, past a left subtree of two
\* levels and before the root's own weight
Wit_C27 ==
    /\ wlast.op = "sample"
    /\ wlast.ret = "Ok"
    /\ wtree.kind \in IntKinds
    /\ Len(wtree.st) = MaxLen
    /\ wlast.i = 2
    /\ Subtotal(wtree.st, 3) > 0
    /\ TreeGet(wtree.kind, wtree.st, 1, "debug").v > 0
    /\ TreeGet(wtree.kind, wtree.st, 0, "debug").v > 0

\* ------------------------------------------------------------ C28
\* The plain list of weights that runs beside a tree is the list of what get
\* returns for its indices; it is read off the tree before and after every
\* operation and compared with what the operation should have done to it.
WeightsOf(kind, st) == [i \in 1 .. Len(st) |-> TreeGet(kind, st, i - 1, "release").v]
\* the sum of the listed weights in the implicit subtree rooted at index
RECURSIVE SubtreeSum(_, _)
SubtreeSum(ws, index) ==
    IF index >= Len(ws) THEN 0
    ELSE ws[index + 1] + SubtreeSum(ws, 2 * index + 1) + SubtreeSum(ws, 2 * index + 2)
\* the list after the last operation is the list before it, changed as the
\* operation says
ListFollows ==
    LET now == WeightsOf(wtree.kind, wtree.st)
        old == WeightsOf(wtree.kind, wlast.pre)
    IN  /\ (wlast.op = "new" /\ wlast.ret = "Ok") => now = wlast.ws
        /\ (wlast.op = "push" /\ wlast.ret = "Ok") => now = Append(old, wlast.w)
        /\ (wlast.op = "pop" /\ wlast.ret = "Some") => old = Append(now, wlast.v)
        /\ (wlast.op = "update" /\ wlast.ret = "Ok")
               => now = [old EXCEPT ![wlast.i + 1] = wlast.w]
        /\ (wlast.op \in {"push", "pop", "update"} /\ wlast.ret \notin {"Ok", "Some"})
               => wtree.st = wlast.pre
\* the tree is the one new builds from the list
TreeOfList ==
    LET now == WeightsOf(wtree.kind, wtree.st)
    IN  /\ TreeNew(wtree.kind, now) = [res |-> "Ok", st |-> wtree.st]
        /\ \A i \in 0 .. Len(now) - 1 : wtree.st[i + 1] = SubtreeSum(now, i)
        /\ Len(now) > 0 => wtree.st[1] = SeqSum(now)
\* C28 as stated, for every weight type.  Fails for floating point weights:
\* push adds the new weight to subtotals that are already rounded, and pop
\* and update take differences of rounded subtotals, so the tree depends on
\* the operations that led to the list.
Orig_C28 == wtree.some => (ListFollows /\ TreeOfList)
\* C28: for an integer weight type, after any sequence of operations the
\* tree has exactly the subtotals that new builds from the plain list of
\* weights kept beside it: subtotals[i] is the sum of the listed weights in
\* the subtree of i and subtotals[0] the sum of all of them, whatever
\* operations produced the list.
Thm_C28 == (wtree.some /\ wtree.kind \in IntKinds) => (ListFollows /\ TreeOfList)
\* an update changed the weight of an inner node of a three-level tree whose
\* other three weights are positive
Wit_C28 ==
    /\ wlast.op = "update"
    /\ wlast.ret = "Ok"
    /\ wtree.kind \in IntKinds
    /\ Len(wtree.st) = 4
    /\ wlast.i = 1
    /\ wlast.w # OldWeight(1)
    /\ \A i \in {0, 2, 3} : TreeGet(wtree.kind, wtree.st, i, "release").v > 0

\* ------------------------------------------------------------ C29
\* C29: every invalid input to the tree is answered with a typed error and
\* never with a panic; in particular get(index) and update(index, w) with
\* index >= len(), also on an empty tree, do not panic.  Fails: both index
\* subtotals without a test of the index.
Orig_C29 ==
    /\ (wlast.op \in {"get", "update"} /\ wlast.i >= TreeLen(wtree.st))
           => wlast.ret # "panic"
    /\ (wlast.op \in {"new", "push"}) => wlast.ret # "panic"
\* get(0) on an empty tree panicked
Wit_C29 ==
    /\ wlast.op = "get"
    /\ wtree.st = <<>>
    /\ wlast.i = 0
    /\ wlast.ret = "panic"
\* update(len(), w) with a valid weight on a tree of three levels panicked
Wit_C29_Update ==
    /\ wlast.op = "update"
    /\ Len(wtree.st) = 4
    /\ wlast.i = 4
    /\ wlast.w >= 0
    /\ wlast.ret = "panic"
    /\ wtree.st = wlast.pre
\* what the operations do with an index out of range: get always panics,
\* update panics unless the weight is negative, which is tested first; new
\* and push never panic
Rest_C29 ==
    /\ (wlast.op = "get" /\ wlast.i >= TreeLen(wtree.st)) => wlast.ret = "panic"
    /\ (wlast.op = "update" /\ wlast.i >= TreeLen(wtree.st))
           => wlast.ret = (IF wlast.w < 0 THEN "InvalidWeight" ELSE "panic")
    /\ (wlast.op \in {"new", "push"}) => wlast.ret # "panic"

\* ------------------------------------------------------------ C30
\* C30: for every ErrorKind, should_retry() is true exactly for Transient
\* and NotReady and should_wait() is true exactly for NotReady; hence
\* should_wait() implies should_retry(), and Unavailable and Other are never
\* retried.  Read off each answer the calls give on the error at hand, and
\* the two consequences over every kind.
Thm_C30 ==
    /\ elast.op = "should_retry" =>
           (elast.b <=> err.kind \in {"Transient", "NotReady"})
    /\ elast.op = "should_wait" => (elast.b <=> err.kind = "NotReady")
    /\ \A kind \in ErrorKinds : ShouldWait(kind) => ShouldRetry(kind)
    /\ \A kind \in {"Unavailable", "Other"} : ~ShouldRetry(kind)
\* an error that is not ready has been asked whether to wait, and should be
\* retried too
Wit_C30 ==
    /\ elast.op = "should_wait"
    /\ elast.b
    /\ err.kind = "NotReady"
    /\ ShouldRetry(err.kind)

\* ------------------------------------------------------------ C31
\* C31: through &mut R and Box<R>, each of next_u32, next_u64, fill_bytes
\* and try_fill returns exactly what the same call on the wrapped generator
\* returns (the same value, or an error of the same kind) and advances the
\* generator exactly as the direct call does; a sequence of calls through
\* the wrapper and the same sequence made directly are indistinguishable.
Thm_C31 ==
    /\ direct = wrapped
    /\ flast.w.ret = flast.d.ret
    /\ flast.w.val = flast.d.val
    /\ flast.w.kind = flast.d.kind
    /\ flast.w.g = flast.d.g
\* try_fill through a Box<&mut R> failed with NotReady, after calls that
\* advanced the generator
Wit_C31 ==
    /\ flast.method = "try_fill"
    /\ flast.layers = <<"box", "ref">>
    /\ flast.w.ret = "Err"
    /\ flast.w.kind = "NotReady"
    /\ flast.pre > 0

\* ------------------------------------------------------------ C32
\* C32: Bernoulli::from_ratio(numerator, denominator) panics if
\* denominator == 0 or numerator > denominator, for every pair of inputs;
\* for all other inputs it returns a distribution, which always yields true
\* when numerator == denominator and always yields false when
\* numerator == 0.
Orig_C32 ==
    /\ blast.op = "from_ratio" =>
           (blast.ret = "panic" <=>
               (blast.denominator = 0 \/ blast.numerator > blast.denominator))
    /\ (blast.op = "sample" /\ blast.numerator = blast.denominator) => blast.b
    /\ (blast.op = "sample" /\ blast.numerator = 0) => ~blast.b
\* from_ratio(0, 0) returned a distribution, and it was sampled
Wit_C32 ==
    /\ blast.op = "sample"
    /\ blast.numerator = 0
    /\ blast.denominator = 0
    /\ blast.b
\* what the code does: it panics exactly when numerator > denominator, and
\* 0-in-0 counts as numerator == denominator
Rest_C32 ==
    /\ blast.op = "from_ratio" =>
           (blast.ret = "panic" <=> blast.numerator > blast.denominator)
    /\ (blast.op = "sample" /\ blast.numerator = blast.denominator) => blast.b
    /\ (blast.op = "sample" /\ blast.numerator = 0 /\ blast.denominator # 0) => ~blast.b

\* ------------------------------------------------------------ C33
\* index a is index itself or one of its ancestors
RECURSIVE OnPath(_, _)
OnPath(a, index) ==
    IF a = index THEN TRUE
    ELSE IF index = 0 THEN FALSE
    ELSE OnPath(a, (index - 1) \div 2)
\* the difference update adds, where no build panics computing it
Difference == SubAssign(wtree.kind, wlast.w, OldWeight(wlast.i), "release").v
\* the last operation was a push that got past its checks
PushChecked ==
    /\ wlast.op = "push"
    /\ wlast.w >= 0
    /\ (Len(wlast.pre) > 0 => CheckedAdd(wtree.kind, wlast.pre[1], wlast.w).ok)
\* the last operation was an update that had something to add and got past
\* its checks
UpdateChecked ==
    /\ wlast.op = "update"
    /\ wlast.w >= 0
    /\ wlast.i < Len(wlast.pre)
    /\ \A build \in Builds : SubAssign(wtree.kind, wlast.w, OldWeight(wlast.i), build).ok
    /\ Difference # 0
    /\ CheckedAdd(wtree.kind, wlast.pre[1], Difference).ok
\* C33: whenever the overflow check on the grand total passes in push or
\* update, none of the checked additions on subtotals[index] and on its
\* ancestors fails: the call returns Ok with the whole walk up to the root
\* applied, and a call that does not return Ok has changed nothing.
Thm_C33 ==
    /\ PushChecked =>
           /\ wlast.ret = "Ok"
           /\ Len(wtree.st) = Len(wlast.pre) + 1
           /\ \A a \in 0 .. (Len(wlast.pre) - 1) :
                  wtree.st[a + 1] =
                      IF OnPath(a, Len(wlast.pre))
                      THEN CheckedAdd(wtree.kind, wlast.pre[a + 1], wlast.w).v
                      ELSE wlast.pre[a + 1]
    /\ UpdateChecked =>
           /\ wlast.ret = "Ok"
           /\ Len(wtree.st) = Len(wlast.pre)
           /\ \A a \in 0 .. (Len(wlast.pre) - 1) :
                  wtree.st[a + 1] =
                      IF OnPath(a, wlast.i)
                      THEN CheckedAdd(wtree.kind, wlast.pre[a + 1], Difference).v
                      ELSE wlast.pre[a + 1]
    /\ (wlast.op \in {"push", "update"} /\ wlast.ret # "Ok") => wtree.st = wlast.pre
\* update raised a leaf two levels below the root of a signed tree so that
\* the grand total became the largest value of the type
Wit_C33 ==
    /\ UpdateChecked
    /\ wtree.kind = "signed"
    /\ wlast.i >= 3
    /\ Difference > 0
    /\ wtree.st[1] = WMax("signed")
    /\ wlast.ret = "Ok"

\* ------------------------------------------------------------ C34
\* get(j) gives the same in every build, before and after the last operation
SameWeight(j) ==
    \A build \in Builds :
        TreeGet(wtree.kind, wtree.st, j, build) = TreeGet(wtree.kind, wlast.pre, j, build)
\* pop on an empty tree
PopEmpty == wlast.ret = "None" /\ wtree.st = <<>>
\* pop on a tree of n >= 1 elements, but for the weights it leaves behind
PopLast ==
    LET n == Len(wlast.pre)
        weight == wlast.pre[n]
    IN  /\ wlast.ret = "Some"
        /\ wlast.v = weight
        /\ \A build \in Builds :
               TreeGet(wtree.kind, wlast.pre, n - 1, build) = [res |-> "Ok", v |-> weight]
        /\ Subtotal(wlast.pre, 2 * (n - 1) + 1) = 0
        /\ TreeLen(wtree.st) = n - 1
        /\ \A a \in 0 .. (n - 2) :
               wtree.st[a + 1] =
                   IF OnPath(a, n - 1)
                   THEN SubAssign(wtree.kind, wlast.pre[a + 1], weight, "release").v
                   ELSE wlast.pre[a + 1]
        /\ (n = 1 => wtree.st = <<>>)
\* C34 as stated: pop() on an empty tree returns None and leaves it empty; on
\* a tree of length n >= 1 it returns the own weight of index n-1 (equal to
\* get(n-1) before the call, the last element being a leaf), reduces len()
\* to n-1, subtracts that weight from exactly the ancestors of index n-1, and
\* leaves get(j) unchanged for every j < n-1.  Fails for floating point
\* weights: the subtraction from an ancestor is rounded, and the difference
\* get computes for it afterwards is not the one it computed before.
Orig_C34 ==
    wlast.op = "pop" =>
        IF wlast.pre = <<>> THEN PopEmpty
        ELSE PopLast /\ \A j \in 0 .. (Len(wlast.pre) - 2) : SameWeight(j)
\* C34: as above, with get(j) unchanged for every j < n-1 on an integer
\* weight type.
Thm_C34 ==
    wlast.op = "pop" =>
        IF wlast.pre = <<>> THEN PopEmpty
        ELSE /\ PopLast
             /\ wtree.kind \in IntKinds =>
                    \A j \in 0 .. (Len(wlast.pre) - 2) : SameWeight(j)
\* pop took a positive weight off the third level of an integer tree whose
\* root and inner nodes carry weight of their own
Wit_C34 ==
    /\ wlast.op = "pop"
    /\ wtree.kind \in IntKinds
    /\ Len(wlast.pre) >= 4
    /\ wlast.v > 0
    /\ wlast.ret = "Some"
    /\ OldWeight(0) > 0
    /\ OldWeight(1) > 0

\* ------------------------------------------------------------ C35
\* a successful update(i, w), but for the weights it leaves behind
UpdateFrame ==
    /\ TreeLen(wtree.st) = TreeLen(wlast.pre)
    /\ \A a \in 0 .. (Len(wlast.pre) - 1) :
           ~OnPath(a, wlast.i) => wtree.st[a + 1] = wlast.pre[a + 1]
\* a successful push(w), but for the weights it leaves behind
PushFrame ==
    /\ TreeLen(wtree.st) = TreeLen(wlast.pre) + 1
    /\ \A build \in Builds :
           TreeGet(wtree.kind, wtree.st, TreeLen(wtree.st) - 1, build) =
               [res |-> "Ok", v |-> wlast.w]
\* the last operation was update(i, get(i))
UpdateToSame ==
    /\ wlast.op = "update"
    /\ wlast.i < Len(wlast.pre)
    /\ \A build \in Builds :
           TreeGet(wtree.kind, wlast.pre, wlast.i, build) = [res |-> "Ok", v |-> wlast.w]
\* C35 as stated: a successful update(i, w) leaves len() and get(j) for every
\* j != i unchanged and changes only subtotals[i] and the subtotals of i's
\* ancestors; a successful push(w) leaves get(j) unchanged for every
\* pre-existing index j and sets get(len-1) == w; update(i, get(i)) returns
\* Ok and leaves the tree unchanged.  Fails for floating point weights: the
\* additions are rounded, so get(j) of an ancestor can change, and get(i)
\* can be negative, which update rejects.
Orig_C35 ==
    /\ (wlast.op = "update" /\ wlast.ret = "Ok") =>
           /\ UpdateFrame
           /\ \A j \in 0 .. (Len(wlast.pre) - 1) : j # wlast.i => SameWeight(j)
    /\ (wlast.op = "push" /\ wlast.ret = "Ok") =>
           /\ PushFrame
           /\ \A j \in 0 .. (Len(wlast.pre) - 1) : SameWeight(j)
    /\ UpdateToSame => (wlast.ret = "Ok" /\ wtree.st = wlast.pre)
\* C35: as above, with get(j) unchanged on an integer weight type, and
\* update(i, get(i)) returning Ok where get(i) is not negative.
Thm_C35 ==
    /\ (wlast.op = "update" /\ wlast.ret = "Ok") =>
           /\ UpdateFrame
           /\ wtree.kind \in IntKinds =>
                  \A j \in 0 .. (Len(wlast.pre) - 1) : j # wlast.i => SameWeight(j)
    /\ (wlast.op = "push" /\ wlast.ret = "Ok") =>
           /\ PushFrame
           /\ wtree.kind \in IntKinds =>
                  \A j \in 0 .. (Len(wlast.pre) - 1) : SameWeight(j)
    /\ (UpdateToSame /\ wlast.w >= 0) => (wlast.ret = "Ok" /\ wtree.st = wlast.pre)
    /\ (UpdateToSame /\ wtree.kind \in IntKinds) => wlast.w >= 0
\* update changed the weight of an inner node of an integer tree whose
\* parent and child carry weight of their own
Wit_C35 ==
    /\ wlast.op = "update"
    /\ wlast.ret = "Ok"
    /\ wtree.kind \in IntKinds
    /\ wlast.i = 1
    /\ Len(wlast.pre) >= 4
    /\ wlast.w # OldWeight(1)
    /\ OldWeight(0) > 0
    /\ OldWeight(3) > 0

\* ------------------------------------------------------------ C36
\* floor(log2(n)) for n >= 1
RECURSIVE Log2Floor(_)
Log2Floor(n) == IF n <= 1 THEN 0 ELSE 1 + Log2Floor(n \div 2)
\* an iteration of the loop of sample that continues enters a child that
\* exists, and an iteration of an ancestor walk moves up
IterMoves ==
    /\ (walk.op = "sample" /\ walk'.op = "sample") =>
           /\ walk'.index > walk.index
           /\ walk'.index < Len(wtree.st)
    /\ (walk.op \in {"push", "pop", "update"} /\ walk'.op = walk.op) =>
           /\ walk'.index < walk.index
           /\ walk'.index >= 0
\* the iterations run so far, and the place where a walk ends
IterCount ==
    /\ walk.op = "sample" =>
           (walk.index < Len(wtree.st) /\ walk.iters <= Log2Floor(Len(wtree.st)))
    /\ walk.done \in {"sample", "panic"} /\ walk.op = "idle" /\ Len(wtree.st) > 0 =>
           walk.iters <= Log2Floor(Len(wtree.st)) + 1
    /\ walk.done \in {"push", "pop", "update"} =>
           (walk.index = 0 /\ wtree.st = walk.goal)
\* C36: the descent loop of sample terminates for every reachable tree and
\* every draw in [0, total): the index strictly increases on each iteration
\* that continues and only moves to a child that exists, so at most
\* floor(log2(len())) + 1 iterations run; likewise the ancestor walks of
\* push, pop and update strictly decrease the index and terminate at index 0.
Thm_C36 ==
    /\ []IterCount
    /\ [][IterMoves]_vars
    /\ (walk.op \in Running) ~> (walk.op = "idle")
\* sample ended on the third level after three iterations
Wit_C36 ==
    /\ walk.op = "idle"
    /\ walk.done = "sample"
    /\ walk.index >= 3
    /\ walk.iters = 3

\* ------------------------------------------------------------ C37
\* the cores the last operation went through: before each call of generate
\* or reseed it made, and now
CoresSeen == {rng.core} \cup {last.events[i].pre : i \in DOMAIN last.events}
\* the subtraction the next call of generate makes on this core, unwrapped
NextBudget(core) ==
    IF core.bytes_until_reseed <= 0 THEN core.threshold - NumBytes
    ELSE core.bytes_until_reseed - NumBytes
CoreInRange(core) ==
    /\ 1 <= core.threshold
    /\ core.threshold <= I64_MAX
    /\ 0 - NumBytes < core.bytes_until_reseed
    /\ core.bytes_until_reseed <= core.threshold
    /\ I64_MIN <= NextBudget(core)
    /\ NextBudget(core) <= I64_MAX
    /\ core.threshold = rng.core.threshold
\* C37: in every reachable state of a reseeding core whose block is B bytes,
\* after any sequence of generate calls, manual reseeds, clones and reseed
\* failures, the threshold is in [1, i64::MAX] and never changes after
\* construction, -B < bytes_until_reseed <= threshold, and no subtraction on
\* the budget overflows or wraps.
Thm_C37 ==
    /\ [](\A core \in CoresSeen : CoreInRange(core))
    /\ [][rng'.core.threshold = rng.core.threshold]_vars
\* a clone whose threshold is smaller than a block has failed to reseed and
\* is overdrawn as far as it can be
Wit_C37 ==
    /\ obs.cloned
    /\ IsGen
    /\ \E i \in DOMAIN last.events : last.events[i].reseed = "Err"
    /\ rng.core.threshold = 1
    /\ rng.core.bytes_until_reseed = 1 - NumBytes

\* ------------------------------------------------------------ C38
\* C38: if the manual ReseedingRng::reseed() returns Err, the inner
\* generator, the threshold and bytes_until_reseed are exactly as before the
\* call; the only effects of the failed call are that the buffered output
\* has been discarded and the reseed source may have advanced.
Thm_C38 ==
    (last.op = "reseed" /\ last.ret = "Err") =>
        LET e == last.events[1]
        IN  /\ rng.core.inner = e.pre.inner
            /\ rng.core.threshold = e.pre.threshold
            /\ rng.core.bytes_until_reseed = e.pre.bytes_until_reseed
            /\ rng.core.reseeder \in {e.pre.reseeder, StepNext(e.pre.reseeder)}
            /\ rng.core = [e.pre EXCEPT !.reseeder = rng.core.reseeder]
            /\ rng.index = BlockWords
            /\ rng.results = e.block
\* reseed() failed on a generator that had output buffered and part of its
\* budget spent, and the source had moved on
Wit_C38 ==
    /\ last.op = "reseed"
    /\ last.ret = "Err"
    /\ last.index0 < BlockWords
    /\ rng.core.bytes_until_reseed < rng.core.threshold
    /\ rng.core.inner.ctr > 0
    /\ rng.core.reseeder # last.events[1].pre.reseeder

\* ------------------------------------------------------------ C39
\* the bytes the last call took from the budget
Charged == IF tlast.op \in TGenOps THEN tlast.n ELSE 0
\* the last call was a reseed attempt on an existing state, automatic or manual
Attempted == tlast.op \in TGenOps \cup {"reseed"} /\ tlast.asked
\* ... and the entropy source failed
FailedAttempt == Attempted /\ tlast.o = "err"
\* a step in which a generation call on the same state returns
NextGenCall ==
    /\ tlast' # tlast
    /\ tlast'.op \in TGenOps
    /\ tlast'.h.cell = tlast.h.cell
\* a reseed attempt, automatic or manual, leaves RESEED_THRESHOLD less the
\* bytes of its own call, and a failed one leaves the old generator
AttemptRefills ==
    /\ Attempted => TPost.bytes_until_reseed = RESEED_THRESHOLD - Charged
    /\ FailedAttempt => TPost.rng.seed = tlast.pre.rng.seed

\* C39 as stated: every reseed attempt sets the budget to RESEED_THRESHOLD
\* before the entropy source is asked, a failed attempt leaves the old
\* generator in place, and the call after a failed attempt never attempts
\* again.
Orig_C39 ==
    /\ []AttemptRefills
    /\ [][(FailedAttempt /\ NextGenCall) => ~tlast'.asked]_vars

\* C39: every reseed attempt, automatic or manual, sets the budget to
\* RESEED_THRESHOLD before the entropy source is asked, so that after the
\* call the budget is RESEED_THRESHOLD less the bytes the call itself
\* requested, and a failed attempt leaves the old generator in place; the
\* generation call after a failed attempt attempts again exactly when the
\* failing call was a fill_bytes of more than RESEED_THRESHOLD bytes.
Thm_C39 ==
    /\ []AttemptRefills
    /\ [][(FailedAttempt /\ NextGenCall) =>
             /\ tlast'.pre = TPost
             /\ tlast'.asked <=> Charged > RESEED_THRESHOLD]_vars

\* a fill_bytes of more than RESEED_THRESHOLD bytes whose automatic attempt
\* failed: the old generator is in place and the budget is below zero again
Wit_C39 ==
    /\ tlast.op = "fill_bytes"
    /\ FailedAttempt
    /\ tlast.n > RESEED_THRESHOLD
    /\ tlast.pre.rng.pos > 0
    /\ TPost.bytes_until_reseed < 0

\* ------------------------------------------------------------ C40
\* the budget of the last generation call at the moment reseed_check
\* subtracts: refilled if the call started below zero
AtSubtraction ==
    IF tlast.pre.bytes_until_reseed < 0 THEN RESEED_THRESHOLD
    ELSE tlast.pre.bytes_until_reseed

\* C40: in every reachable thread-confined state bytes_until_reseed is at
\* most RESEED_THRESHOLD; when reseed_check subtracts the request n of a
\* generation call the budget lies in 0..RESEED_THRESHOLD, so for every n in
\* 0..isize::MAX the subtraction does not overflow isize and the budget left
\* is the exact difference, not below -isize::MAX.
Thm_C40 ==
    /\ \A a \in Addrs :
           heap[a].st # "unalloc" =>
               /\ heap[a].s.bytes_until_reseed <= RESEED_THRESHOLD
               /\ heap[a].s.bytes_until_reseed >= 0 - I64_MAX
               /\ \A n \in 0 .. I64_MAX :
                      LET c == ReseedCheck(heap[a].s, n, os + 1, "err")
                          b == IF heap[a].s.bytes_until_reseed < 0
                               THEN RESEED_THRESHOLD
                               ELSE heap[a].s.bytes_until_reseed
                      IN  /\ b - n >= 0 - I64_MAX
                          /\ c.s.bytes_until_reseed = b - n
    /\ tlast.op \in TGenOps =>
           /\ tlast.n \in 0 .. I64_MAX
           /\ AtSubtraction \in 0 .. RESEED_THRESHOLD
           /\ AtSubtraction - tlast.n \in I64_MIN .. I64_MAX
           /\ TPost.bytes_until_reseed = AtSubtraction - tlast.n

\* fill_bytes of isize::MAX bytes on a budget of exactly zero: the budget
\* left is -isize::MAX
Wit_C40 ==
    /\ tlast.op = "fill_bytes"
    /\ tlast.n = I64_MAX
    /\ tlast.pre.bytes_until_reseed = 0
    /\ TPost.bytes_until_reseed = 0 - I64_MAX
====
